---- MODULE Spec2Model ----
(***************************************************************************)
(* Model of the crawler's reconciliation path:                             *)
(*   storage/supabase_manager.py  SupabaseManager (rank normaliser, lookup,*)
(*                                patch, enrich_or_insert)                 *)
(*   scripts/crawl_universities.py  per-row call of the reconciler         *)
(*   scripts/crawl_qs_topN.py       Top-N rank parser and per-row call     *)
(*                                                                         *)
(* Python values are encoded uniformly as records [t, s, n]:               *)
(*   None, a key that is absent from a dict, a str (sequence of            *)
(*   one-character strings), an int, a float (in hundredths).              *)
(* A dict used as payload (raw_data) is a function from keys to values.    *)
(* The table unreviewed_schools is a sequence of rows; a row's id is its   *)
(* index (the store assigns ids on insert), a NULL column is None.         *)
(***************************************************************************)
EXTENDS Integers, Sequences, FiniteSets, TLC

\* ------------------------------------------------------------------ bounds

\* Number of reconcile calls in one behaviour.
MaxCalls == 3

\* Longest rank text handed to the rank normaliser on its own.
MaxLen == 4

\* Largest magnitude of an integer handed to the rank normaliser on its own.
MaxInt == 12

\* Number of calls made on the HTTPClient in one behaviour.
MaxHttpCalls == 2

\* ------------------------------------------------------------ Python values

None == [t |-> "none", s |-> <<>>, n |-> 0]

Absent == [t |-> "absent", s |-> <<>>, n |-> 0]

StrV(x) == [t |-> "str", s |-> x, n |-> 0]

IntV(k) == [t |-> "int", s |-> <<>>, n |-> k]

FltV(k) == [t |-> "float", s |-> <<>>, n |-> k]

\* dict.get(key): an absent key reads as None.
Get(v) == IF v.t = "absent" THEN None ELSE v

\* dict.get(key, default): the default is used only when the key is absent.
GetD(v, default) == IF v.t = "absent" THEN default ELSE v

\* Python truthiness of a value: None, "", 0 and 0.0 are falsy.
Truthy(v) ==
    CASE v.t = "str" -> v.s # <<>>
      [] v.t = "int" -> v.n # 0
      [] v.t = "float" -> v.n # 0
      [] OTHER -> FALSE

\* Python `a or b`.
Or(a, b) == IF Truthy(a) THEN a ELSE b

\* ------------------------------------------------------------------ strings

IsSpace(c) == c = " "

RECURSIVE LStrip(_)
LStrip(s) == IF s # <<>> /\ IsSpace(Head(s)) THEN LStrip(Tail(s)) ELSE s

RECURSIVE RStrip(_)
RStrip(s) ==
    IF s # <<>> /\ IsSpace(s[Len(s)]) THEN RStrip(SubSeq(s, 1, Len(s) - 1)) ELSE s

\* str.strip()
Strip(s) == RStrip(LStrip(s))

LowerCase ==
    <<"a", "b", "c", "d", "e", "f", "g", "h", "i", "j", "k", "l", "m",
      "n", "o", "p", "q", "r", "s", "t", "u", "v", "w", "x", "y", "z">>

UpperCase ==
    <<"A", "B", "C", "D", "E", "F", "G", "H", "I", "J", "K", "L", "M",
      "N", "O", "P", "Q", "R", "S", "T", "U", "V", "W", "X", "Y", "Z">>

\* Case folding of one character (ilike is case-insensitive).
LowerChar(c) ==
    IF \E i \in DOMAIN UpperCase : UpperCase[i] = c
    THEN LowerCase[CHOOSE i \in DOMAIN UpperCase : UpperCase[i] = c] ELSE c

UpperChar(c) ==
    IF \E i \in DOMAIN LowerCase : LowerCase[i] = c
    THEN UpperCase[CHOOSE i \in DOMAIN LowerCase : LowerCase[i] = c] ELSE c

\* str.upper()
UpperStr(s) == [i \in 1..Len(s) |-> UpperChar(s[i])]

\* str.lower()
LowerStr(s) == [i \in 1..Len(s) |-> LowerChar(s[i])]

\* needle occurs in hay as a contiguous substring.
Contains(hay, needle) ==
    \E i \in 0..(Len(hay) - Len(needle)) : SubSeq(hay, i + 1, i + Len(needle)) = needle

\* Index of the first occurrence of character c in s, 0 when there is none.
FirstIndex(s, c) ==
    IF \E i \in 1..Len(s) : s[i] = c
    THEN CHOOSE i \in 1..Len(s) : s[i] = c /\ \A j \in 1..(i - 1) : s[j] # c
    ELSE 0

Digits == <<"0", "1", "2", "3", "4", "5", "6", "7", "8", "9">>

IsDigit(c) == \E d \in 1..10 : Digits[d] = c

DigitVal(c) == (CHOOSE d \in 1..10 : Digits[d] = c) - 1

\* str.isdigit(): non-empty and digits only.
IsDigitStr(s) == s # <<>> /\ \A i \in 1..Len(s) : IsDigit(s[i])

RECURSIVE DigitsVal(_)
DigitsVal(s) ==
    IF s = <<>> THEN 0 ELSE 10 * DigitsVal(SubSeq(s, 1, Len(s) - 1)) + DigitVal(s[Len(s)])

\* A reading of integers without sign; C13 tells PyInt from it.
PyIntDigitsOnly(s) ==
    IF IsDigitStr(Strip(s)) THEN [ok |-> TRUE, n |-> DigitsVal(Strip(s))]
    ELSE [ok |-> FALSE, n |-> 0]

\* int(s) of a str: surrounding blanks ignored, an optional sign, then digits;
\* anything else raises ValueError (ok = FALSE).
PyInt(s) ==
    LET u == Strip(s)
        signed == u # <<>> /\ u[1] \in {"+", "-"}
        body == IF signed THEN Tail(u) ELSE u
    IN  IF IsDigitStr(body)
        THEN [ok |-> TRUE, n |-> IF signed /\ u[1] = "-" THEN 0 - DigitsVal(body) ELSE DigitsVal(body)]
        ELSE [ok |-> FALSE, n |-> 0]

RECURSIVE NatToStr(_)
NatToStr(n) == IF n < 10 THEN <<Digits[n + 1]>> ELSE NatToStr(n \div 10) \o <<Digits[(n % 10) + 1]>>

\* str(n) of an int.
IntToStr(n) == IF n < 0 THEN <<"-">> \o NatToStr(0 - n) ELSE NatToStr(n)

\* A rendering that knows texts only; C15 tells PyStr from it.
PyStrOfText(v) == v.s

\* str(val) of a rank value (a str or an int).
PyStr(v) == IF v.t = "int" THEN IntToStr(v.n) ELSE v.s

\* ---------------------------------------------------------- rank normaliser

\* SupabaseManager._normalize_qs_ranking: (display, min_int, max_int).
NormalizeQsRanking(val) ==
    IF val.t \in {"none", "absent"} THEN <<None, None, None>>
    ELSE
    LET s == Strip(PyStr(val)) IN
    IF s = <<>> THEN <<None, None, None>>
    ELSE IF s[1] = "=" THEN
        LET p == PyInt(Strip(Tail(s))) IN
        IF p.ok THEN <<StrV(<<"=">> \o IntToStr(p.n)), IntV(p.n), IntV(p.n)>>
        ELSE <<StrV(s), None, None>>
    ELSE IF s[Len(s)] = "+" THEN
        LET p == PyInt(Strip(SubSeq(s, 1, Len(s) - 1))) IN
        IF p.ok THEN <<StrV(IntToStr(p.n) \o <<"+">>), IntV(p.n), None>>
        ELSE <<StrV(s), None, None>>
    ELSE IF FirstIndex(s, "-") # 0 THEN
        LET k == FirstIndex(s, "-")
            a == PyInt(Strip(SubSeq(s, 1, k - 1)))
            b == PyInt(Strip(SubSeq(s, k + 1, Len(s))))
        IN  IF a.ok /\ b.ok
            THEN <<StrV(IntToStr(a.n) \o <<"-">> \o IntToStr(b.n)), IntV(a.n), IntV(b.n)>>
            ELSE <<StrV(s), None, None>>
    ELSE
        LET p == PyInt(s) IN
        IF p.ok THEN <<StrV(IntToStr(p.n)), IntV(p.n), IntV(p.n)>>
        ELSE <<StrV(s), None, None>>

\* SupabaseManager._is_empty_value
IsEmptyValue(v) == v.t = "none" \/ (v.t = "str" /\ Strip(v.s) = <<>>)

\* ------------------------------------------------------------------- dicts

EmptyDict == [k \in {} |-> None]

\* A raw_data value: a dict, None, or an absent key.
RawDict(d) == [t |-> "dict", d |-> d]

RawNone == [t |-> "none", d |-> EmptyDict]

RawAbsent == [t |-> "absent", d |-> EmptyDict]

\* Python `v or {}` for a raw_data value.
OrEmptyDict(v) == IF v.t = "dict" THEN v.d ELSE EmptyDict

\* A merge that keeps the incoming payload only; C5 tells MergeDict from it.
MergeDictIncomingOnly(old, new) == new

\* Python {**old, **new}: the union of the keys, new wins on collision.
MergeDict(old, new) ==
    [k \in DOMAIN old \cup DOMAIN new |-> IF k \in DOMAIN new THEN new[k] ELSE old[k]]

\* d[k] = v
SetKey(d, k, v) == [x \in DOMAIN d \cup {k} |-> IF x = k THEN v ELSE d[x]]

\* The three `if x is not None: raw[key] = x` statements that fold a rank
\* triple into a payload.
WithRankTriple(raw, triple) ==
    LET r1 == IF triple[1] # None THEN SetKey(raw, "qs_ranking_display", triple[1]) ELSE raw
        r2 == IF triple[2] # None THEN SetKey(r1, "qs_rank_min", triple[2]) ELSE r1
    IN  IF triple[3] # None THEN SetKey(r2, "qs_rank_max", triple[3]) ELSE r2

\* --------------------------------------------------------- rows and payloads

\* candidate_fields of enrich_or_insert_unreviewed_school
CandidateFields ==
    {"year_founded", "country", "location", "website_url", "initial", "type",
     "confidence_score", "source_url"}

\* Scalar columns of unreviewed_schools written by the reconciler.
ScalarCols == CandidateFields \cup {"name", "qs_ranking", "status"}

\* A JSON body with no keys.
NoKeys == [c \in ScalarCols \cup {"raw_data"} |-> IF c = "raw_data" THEN RawAbsent ELSE Absent]

\* PostgREST insert: the new row holds the body's keys, every other column is NULL.
RowOfInsert(body) ==
    [c \in ScalarCols \cup {"raw_data"} |->
        IF c = "raw_data"
        THEN (IF body[c].t = "absent" THEN RawNone ELSE body[c])
        ELSE Get(body[c])]

\* PostgREST patch: the body's keys replace the row's columns, the rest stay.
RowOfPatch(row, body) ==
    [c \in ScalarCols \cup {"raw_data"} |-> IF body[c].t = "absent" THEN row[c] ELSE body[c]]

\* ilike.*pat*: case-insensitive substring match; a NULL column matches nothing.
ILike(col, pat) == col.t = "str" /\ Contains(LowerStr(col.s), LowerStr(pat))

\* ---------------------------------------------------------------- the state

VARIABLES
    store,   \* table unreviewed_schools: a sequence of rows, the id is the index
    calls,   \* reconcile calls made so far
    last,    \* the last call: its arguments, what it matched, wrote and returned
    norm,    \* a call of _normalize_qs_ranking on its own: argument and result
    http,    \* the HTTPClient: its fields, the clock seen from it, the call in progress
    job,     \* a run of crawl_university_rankings: its position, locals and counters,
             \* the row of crawler_jobs it created and the updates it issued
    conc,    \* two concurrent calls of enrich_or_insert_unreviewed_school, step by step
    topn,    \* a run of ensure_topN: its arguments, what it read and fetched, its
             \* position and counters
    crawler  \* the BaseCrawler: its fields, the call of crawl_urls in progress and
             \* the last call of crawl_url

vars == <<store, calls, last, norm, http, job, conc, topn, crawler>>

AllCols == ScalarCols \cup {"raw_data"}

\* Keys of the dict handed to enrich_or_insert_unreviewed_school.
DataKeys == AllCols \cup {"website"}

NoId == 0

\* ------------------------------------------ get_unreviewed_school_by_match

\* (data.get("name") or "").strip()
NameOf(data) == StrV(Strip(Or(Get(data["name"]), StrV(<<>>)).s))

\* (data.get("website_url") or data.get("website") or "").strip()
WebsiteOf(data) ==
    StrV(Strip(Or(Or(Get(data["website_url"]), Get(data["website"])), StrV(<<>>)).s))

\* (data.get("source_url") or "").strip()
SourceOf(data) == StrV(Strip(Or(Get(data["source_url"]), StrV(<<>>)).s))

\* Rows whose website_url contains the text (the website_url=ilike.*..* query).
UrlMatches(tbl, website_url) ==
    {i \in 1..Len(tbl) : ILike(tbl[i]["website_url"], website_url.s)}

\* Rows whose name contains the text (the name=ilike.*..* query).
NameMatches(tbl, name) == {i \in 1..Len(tbl) : ILike(tbl[i]["name"], name.s)}

\* A lookup that asks by name only when no website is given; C4 tells MatchSet
\* from it.
MatchSetOneQuery(tbl, website_url, name, ok) ==
    IF ok /\ Truthy(website_url) THEN UrlMatches(tbl, website_url)
    ELSE IF ok /\ Truthy(name) THEN NameMatches(tbl, name) ELSE {}

\* A lookup that asks by name before it asks by website; C7 tells MatchSet from it.
MatchSetNameFirst(tbl, website_url, name, ok) ==
    LET byUrl == IF ok /\ Truthy(website_url) THEN UrlMatches(tbl, website_url) ELSE {}
        byName == IF ok /\ Truthy(name) THEN NameMatches(tbl, name) ELSE {}
    IN  IF byName # {} THEN byName ELSE byUrl

\* get_unreviewed_school_by_match(website_url=website_url or None, name=name or None):
\* the ids the function may return (each query has limit=1 and no order, so any
\* matching row may be rows[0]); the empty set when it returns None.  ok = FALSE
\* models queries answered with a status other than 200.
MatchSet(tbl, website_url, name, ok) ==
    LET byUrl == IF ok /\ Truthy(website_url) THEN UrlMatches(tbl, website_url) ELSE {}
        byName == IF ok /\ Truthy(name) THEN NameMatches(tbl, name) ELSE {}
    IN  IF byUrl # {} THEN byUrl ELSE byName

\* ------------------------------------- enrich_or_insert_unreviewed_school

\* The staging rule without the test of the stored value (the rule of the
\* overwrite mode in both modes); C2 tells StagedScalar from it.
StagedScalarAnyMode(existing, data, fill_only_empty, f) ==
    IF Get(data[f]).t # "none" THEN data[f] ELSE Absent

\* Lines 492-501: the value staged for candidate field f, Absent when none is.
StagedScalar(existing, data, fill_only_empty, f) ==
    IF fill_only_empty
    THEN (IF IsEmptyValue(existing[f]) /\ ~IsEmptyValue(Get(data[f]))
          THEN Get(data[f]) ELSE Absent)
    ELSE (IF Get(data[f]).t # "none" THEN data[f] ELSE Absent)

\* The rank rule without the test of the stored rank; C6 tells StagedRank from it.
StagedRankAnyMode(existing, rmin, fill_only_empty) ==
    IF rmin.t # "none" THEN rmin ELSE Absent

\* Lines 503-508: the scalar rank staged, Absent when none is.
StagedRank(existing, rmin, fill_only_empty) ==
    IF rmin.t # "none"
       /\ ((fill_only_empty /\ IsEmptyValue(existing["qs_ranking"])) \/ ~fill_only_empty)
    THEN rmin ELSE Absent

\* Lines 510-519: the payload staged, Absent when `raw` is empty.
StagedRaw(data, triple) ==
    LET raw == WithRankTriple(OrEmptyDict(data["raw_data"]), triple)
    IN  IF DOMAIN raw # {} THEN RawDict(raw) ELSE RawAbsent

\* Lines 490-519: the dict `patch`.
EnrichUpdates(existing, data, fill_only_empty) ==
    LET triple == NormalizeQsRanking(Get(data["qs_ranking"])) IN
    [c \in AllCols |->
        CASE c \in CandidateFields -> StagedScalar(existing, data, fill_only_empty, c)
          [] c = "qs_ranking" -> StagedRank(existing, triple[2], fill_only_empty)
          [] c = "raw_data" -> StagedRaw(data, triple)
          [] OTHER -> Absent]

\* `if patch:` a dict with at least one key.
HasKeys(body) == \E c \in AllCols : body[c].t # "absent"

\* patch_unreviewed_school lines 410-437: the JSON body of the PATCH request.
PatchBody(current, updates) ==
    LET payload == [c \in AllCols |-> IF updates[c].t = "none" THEN Absent ELSE updates[c]]
        old_raw == OrEmptyDict(current["raw_data"])
        new_raw == OrEmptyDict(updates["raw_data"])
    IN  IF payload["qs_ranking"].t # "absent"
        THEN LET tr == NormalizeQsRanking(payload["qs_ranking"]) IN
             [payload EXCEPT !["qs_ranking"] = IF tr[2].t # "none" THEN tr[2] ELSE Absent,
                             !["raw_data"] = RawDict(WithRankTriple(MergeDict(old_raw, new_raw), tr))]
        ELSE IF updates["raw_data"].t # "absent"
        THEN [payload EXCEPT !["raw_data"] = RawDict(MergeDict(old_raw, new_raw))]
        ELSE payload

\* Lines 528-551: the dict insert_payload before its none values are dropped.
InsertPayload(data) ==
    LET triple == NormalizeQsRanking(Get(data["qs_ranking"])) IN
    [c \in AllCols |->
        CASE c = "name" -> NameOf(data)
          [] c = "qs_ranking" -> triple[2]
          [] c = "website_url" -> Or(WebsiteOf(data), Get(data["website"]))
          [] c = "source_url" -> SourceOf(data)
          [] c = "confidence_score" -> GetD(data[c], FltV(0))
          [] c = "status" -> GetD(data[c], StrV(<<"pending">>))
          [] c = "raw_data" -> RawDict(WithRankTriple(OrEmptyDict(data[c]), triple))
          [] OTHER -> Get(data[c])]

\* A body without the blank strings as well; C8 tells InsertBody from it.
InsertBodyNonEmpty(data) ==
    [c \in AllCols |->
        IF c # "raw_data" /\ IsEmptyValue(InsertPayload(data)[c])
        THEN Absent ELSE InsertPayload(data)[c]]

\* Line 553: the JSON body of the POST request.
InsertBody(data) ==
    [c \in AllCols |->
        IF InsertPayload(data)[c].t = "none" THEN Absent ELSE InsertPayload(data)[c]]

NoWrite == [kind |-> "none", id |-> NoId, body |-> NoKeys, applied |-> FALSE]

\* The record kept of one call: op is the caller, src the rank text of the
\* source record the call was made for.
CallRecord(op, src, data, fill_only_empty, fault, existing, write, id, action) ==
    [op |-> op, src |-> src, data |-> data, fill |-> fill_only_empty, fault |-> fault,
     existing |-> existing, write |-> write, id |-> id, action |-> action]

\* A result that carries the id of the matched row whatever the patch did; C11
\* tells PatchResultId from it.
PatchResultIdOfRow(e, ok) == e

\* Line 523: existing["id"] if ok else None.
PatchResultId(e, ok) == IF ok THEN e ELSE NoId

\* Lines 489-525: a row was matched.  fault "current" fails the read of the row
\* inside patch_unreviewed_school, fault "patch" the PATCH request itself.
Enrich(op, src, e, data, fill_only_empty, fault) ==
    LET updates == EnrichUpdates(store[e], data, fill_only_empty)
        body == PatchBody(store[e], updates)
        ok == fault \notin {"current", "patch"}
        write == [kind |-> "patch", id |-> e, body |-> body, applied |-> ok]
    IN  IF ~HasKeys(updates)
        THEN /\ store' = store
             /\ last' = CallRecord(op, src, data, fill_only_empty, fault, e, NoWrite, e, "skipped")
        ELSE /\ store' = IF ok THEN [store EXCEPT ![e] = RowOfPatch(@, body)] ELSE store
             /\ last' = CallRecord(op, src, data, fill_only_empty, fault, e,
                                   IF fault = "current" THEN NoWrite ELSE write,
                                   PatchResultId(e, ok),
                                   IF ok THEN "enriched" ELSE "skipped")

\* Line 561: the id of the inserted row, when the answer to the POST is a list
\* that holds it; with fault "norep" the answer is 2xx without such a list.
InsertResultId(id, fault) == IF fault = "norep" THEN NoId ELSE id

\* Lines 527-569: no row was matched.  fault "insert" rejects the POST, fault
\* "norep" accepts it and answers without the new row.
Insert(op, src, data, fill_only_empty, fault) ==
    LET body == InsertBody(data)
        ok == fault # "insert"
        id == Len(store) + 1
        write == [kind |-> "insert", id |-> IF ok THEN id ELSE NoId, body |-> body, applied |-> ok]
    IN  /\ store' = IF ok THEN Append(store, RowOfInsert(body)) ELSE store
        /\ last' = CallRecord(op, src, data, fill_only_empty, fault, NoId, write,
                              IF ok THEN InsertResultId(id, fault) ELSE NoId,
                              IF ok THEN "inserted" ELSE "skipped")

\* enrich_or_insert_unreviewed_school(data, fill_only_empty=...), as one step.
Reconcile(op, src, data, fill_only_empty, fault) ==
    LET matches == MatchSet(store, WebsiteOf(data), NameOf(data), fault # "lookup") IN
    /\ calls < MaxCalls
    /\ calls' = calls + 1
    /\ IF matches # {}
       THEN \E e \in matches : Enrich(op, src, e, data, fill_only_empty, fault)
       ELSE Insert(op, src, data, fill_only_empty, fault)

\* ------------------------------------------------- the two callers, per row

\* str.replace(c, ""): every occurrence of character c removed.
RECURSIVE RemoveChar(_, _)
RemoveChar(s, c) ==
    IF s = <<>> THEN <<>>
    ELSE IF Head(s) = c THEN RemoveChar(Tail(s), c)
    ELSE <<Head(s)>> \o RemoveChar(Tail(s), c)

NoBounds == [lo |-> None, hi |-> None]

\* crawl_qs_topN._parse_rank_bounds: (low, high).
ParseRankBounds(rank_str) ==
    IF rank_str.t \in {"none", "absent"} THEN NoBounds
    ELSE
    LET s == RemoveChar(Strip(PyStr(rank_str)), "=")
        k == FirstIndex(s, "-")
        a == Strip(SubSeq(s, 1, k - 1))
        b == Strip(SubSeq(s, k + 1, Len(s)))
    IN  IF s = <<>> THEN NoBounds
        ELSE IF IsDigitStr(s) THEN [lo |-> IntV(DigitsVal(s)), hi |-> IntV(DigitsVal(s))]
        ELSE IF k # 0 /\ IsDigitStr(a) /\ IsDigitStr(b)
        THEN [lo |-> IntV(DigitsVal(a)), hi |-> IntV(DigitsVal(b))]
        ELSE NoBounds

\* The lower bound in place of the upper one; C10 tells NormalizeRankToInt from it.
NormalizeRankToLow(rank_str) ==
    LET bounds == ParseRankBounds(rank_str)
    IN  IF bounds.lo.t = "none" \/ bounds.hi.t = "none" THEN None ELSE bounds.lo

\* crawl_qs_topN._normalize_rank_to_int: the upper bound, None when unparsed.
NormalizeRankToInt(rank_str) ==
    LET bounds == ParseRankBounds(rank_str)
    IN  IF bounds.lo.t = "none" \/ bounds.hi.t = "none" THEN None ELSE bounds.hi

\* Keys of a row of the ranking source (the JSON objects of the .txt file).
RowKeys == {"title", "rank_display", "overall_rank", "rank", "country", "city", "founded"}

\* name[:3].upper()
InitialOf(name) == StrV(UpperStr(SubSeq(name, 1, IF Len(name) < 3 THEN Len(name) ELSE 3)))

\* UniversityCrawler.ranking_url, also the Referer of the Top-N fetch.
RankingUrl == StrV(<<"qs">>)

\* _fetch_qs_txt_direct lines 280-314 followed by crawl_university_rankings lines
\* 155-177: the dict handed to the reconciler for source row it (a title without
\* markup, hence without a profile link).
CrawlCandidate(it) ==
    LET name == Strip(Get(it["title"]).s) IN
    [k \in DataKeys |->
        CASE k = "name" -> StrV(name)
          [] k = "initial" -> InitialOf(name)
          [] k = "type" -> StrV(<<"University">>)
          [] k = "country" -> Or(Get(it["country"]), StrV(<<>>))
          [] k = "location" -> Or(Get(it["city"]), StrV(<<>>))
          [] k = "year_founded" -> Get(it["founded"])
          [] k = "qs_ranking" -> Or(Or(Get(it["rank_display"]), Get(it["overall_rank"])), Get(it["rank"]))
          [] k = "website_url" -> StrV(<<>>)
          [] k = "website" -> Absent
          [] k = "source_url" -> RankingUrl
          [] k = "confidence_score" -> FltV(95)
          [] k = "status" -> StrV(<<"pending">>)
          [] k = "raw_data" ->
                RawDict([x \in {"row", "overall_score", "indicators", "logo", "region", "nid", "core_id"} |->
                            CASE x = "row" -> Get(it["title"])
                              [] x = "indicators" -> StrV(<<"{}">>)
                              [] OTHER -> None])]

\* fetch_qs_txt line 203: the rank text the Top-N path reads from a row.
TopNRankText(it) == Or(Get(it["rank_display"]), Get(it["overall_rank"]))

\* fetch_qs_txt lines 202-229 followed by ensure_topN lines 272-285.
TopNCandidate(it) ==
    LET name == Strip(Get(it["title"]).s) IN
    [k \in DataKeys |->
        CASE k = "name" -> StrV(name)
          [] k = "initial" -> InitialOf(name)
          [] k = "type" -> StrV(<<"University">>)
          [] k = "country" -> Or(Get(it["country"]), StrV(<<>>))
          [] k = "location" -> Or(Get(it["city"]), StrV(<<>>))
          [] k = "year_founded" -> Get(it["founded"])
          [] k = "qs_ranking" -> NormalizeRankToInt(TopNRankText(it))
          [] k = "website_url" -> None
          [] k = "website" -> Absent
          [] k = "source_url" -> RankingUrl
          [] k = "confidence_score" -> FltV(95)
          [] k = "status" -> StrV(<<"pending">>)
          [] k = "raw_data" ->
                RawDict([x \in {"row", "logo", "region", "nid", "core_id", "qs_ranking_text",
                                  "indicators", "from"} |->
                            CASE x = "row" -> Get(it["title"])
                              [] x = "indicators" -> StrV(<<"{}">>)
                              [] x = "qs_ranking_text" -> TopNRankText(it)
                              [] x = "from" -> StrV(<<"qs_txt">>)
                              [] OTHER -> None])]

\* fetch_qs_txt line 204: the row is kept.
TopNKeeps(it, N) ==
    LET norm_rank == NormalizeRankToInt(TopNRankText(it))
    IN  norm_rank.t # "none" /\ norm_rank.n <= N

\* Among the keywords of _is_probably_university and of school_keywords, those
\* the names of the model can hold.
Keywords == {<<"s", "c", "h", "o", "o", "l">>, <<"u", "n", "i", "v", "e", "r", "s">>}

\* A heuristic that lets every name of three characters pass.
IsProbablyUniversityAnyName(name) == Len(Strip(name)) >= 3

\* _is_probably_university
IsProbablyUniversity(name) ==
    /\ Len(Strip(name)) >= 3
    /\ \E k \in Keywords : Contains(LowerStr(name), k)

\* fetch_qs_txt lines 186-205: the row passes the name test and the rank test.
FetchKeeps(it, N) ==
    /\ IsProbablyUniversity(Strip(Get(it["title"]).s))
    /\ TopNKeeps(it, N)

\* list.sort(key=qs_ranking): a stable sort, by insertion from the left.
RECURSIVE InsertByRank(_, _)
InsertByRank(sorted, r) ==
    IF sorted = <<>> THEN <<r>>
    ELSE IF sorted[Len(sorted)]["qs_ranking"].n <= r["qs_ranking"].n THEN Append(sorted, r)
    ELSE Append(InsertByRank(SubSeq(sorted, 1, Len(sorted) - 1), r), sorted[Len(sorted)])

RECURSIVE SortByRank(_)
SortByRank(rows) ==
    IF rows = <<>> THEN <<>>
    ELSE InsertByRank(SortByRank(SubSeq(rows, 1, Len(rows) - 1)), rows[Len(rows)])

\* The kept rows of a list, in order.
RECURSIVE KeptRows(_, _)
KeptRows(rows, N) ==
    IF rows = <<>> THEN <<>>
    ELSE IF FetchKeeps(Head(rows), N) THEN <<TopNCandidate(Head(rows))>> \o KeptRows(Tail(rows), N)
    ELSE KeptRows(Tail(rows), N)

\* fetch_qs_txt lines 185-233, for the rows the source returned.
FetchQsTxt(rows, N) == SortByRank(KeptRows(rows, N))

\* The local norm_rank of each iteration of the loop of fetch_qs_txt: the parsed
\* rank, or "skipped" for a row that line 190 left before the rank was parsed.
NormRanks(rows, N) ==
    [i \in 1..Len(rows) |->
        IF IsProbablyUniversity(Strip(Get(rows[i]["title"]).s))
        THEN NormalizeRankToInt(TopNRankText(rows[i]))
        ELSE [t |-> "skipped", s |-> <<>>, n |-> 0]]

\* A decision that looks at the count only.
NeedFetchByCount(N, count, max_rank, present) == count < N

\* need_fetch_topN
NeedFetchTopN(N, count, max_rank, present) ==
    IF count < N THEN TRUE
    ELSE IF max_rank.t = "none" \/ max_rank.n < N THEN TRUE
    ELSE (1..N) \ present # {}

\* Maximum of a non-empty set of integers.
MaxOf(S) == CHOOSE x \in S : \A y \in S : y <= x

\* The argument source_like: a substring of the source_url of the rows the run
\* counts.
SourceLike == <<"qs">>

\* fetch_topN_status lines 105-117: (count, max_rank, present) of the rows with
\* an integer qs_ranking <= N whose source_url holds source_like; (0, None, {})
\* when the query fails.
FetchTopNStatus(tbl, N, ok) ==
    LET hits == {i \in 1..Len(tbl) :
                    /\ tbl[i]["qs_ranking"].t = "int" /\ tbl[i]["qs_ranking"].n <= N
                    /\ tbl[i]["source_url"].t = "str"
                    /\ Contains(LowerStr(tbl[i]["source_url"].s), SourceLike)}
        ranks == {tbl[i]["qs_ranking"].n : i \in hits}
    IN  IF ~ok THEN [count |-> 0, max_rank |-> None, present |-> {}]
        ELSE [count |-> Cardinality(hits),
              max_rank |-> IF ranks = {} THEN None ELSE IntV(MaxOf(ranks)),
              present |-> ranks]

\* An ensure_topN not yet called.
NoTopN ==
    [pc |-> "start", N |-> 0, dry_run |-> FALSE, source |-> <<>>, status_ok |-> TRUE,
     count |-> 0, max_rank |-> None, present |-> {}, need |-> FALSE,
     fetched |-> FALSE, norm_ranks |-> <<>>, kept |-> <<>>, rows |-> 0, writes |-> 0,
     stored |-> 0, enriched |-> 0, skipped |-> 0, failed |-> 0, log |-> <<>>,
     returned |-> "none"]

\* ------------------------------------------------------------- HTTPClient
\* Times are whole seconds.  The clock is kept as the two differences the code
\* and the send times depend on, each followed up to DELAY_BETWEEN_REQUESTS
\* only (line 70 compares time_since_last with min_delay and with nothing else).

\* settings.DELAY_BETWEEN_REQUESTS
DELAY_BETWEEN_REQUESTS == 5

\* settings.RETRY_DELAY
RETRY_DELAY == 5

\* settings.MAX_RETRIES
MAX_RETRIES == 3

\* The factor of line 111.
BackoffBase == 5

RECURSIVE Pow2(_)
Pow2(k) == IF k = 0 THEN 1 ELSE 2 * Pow2(k - 1)

\* A difference of times, followed up to DELAY_BETWEEN_REQUESTS.
Capped(t) == IF t > DELAY_BETWEEN_REQUESTS THEN DELAY_BETWEEN_REQUESTS ELSE t

NoHttpCall == [op |-> "none", retries |-> 0, reqs |-> 0, waits |-> <<>>, seen |-> <<>>,
               result |-> "none"]

\* HTTPClient.__init__: last_request_time = 0 lies far in the past, nothing was
\* sent; pc is the method in progress.
NewClient ==
    [time_since_last |-> DELAY_BETWEEN_REQUESTS, request_count |-> 0,
     since_sent |-> DELAY_BETWEEN_REQUESTS, sent |-> 0, gap |-> DELAY_BETWEEN_REQUESTS,
     ncalls |-> 0, pc |-> "idle", attempt |-> 0, call |-> NoHttpCall]

\* t seconds pass.
Pass(h, t) ==
    [h EXCEPT !.time_since_last = Capped(@ + t), !.since_sent = Capped(@ + t)]

\* A limiter that does not count the request.
RateLimitUncounted(h) ==
    LET sleep_time == IF h.time_since_last < DELAY_BETWEEN_REQUESTS
                      THEN DELAY_BETWEEN_REQUESTS - h.time_since_last ELSE 0
    IN  [Pass(h, sleep_time) EXCEPT !.time_since_last = 0]

\* _rate_limit (lines 62-76): sleep what is missing to min_delay, then note the
\* time and count the request.
RateLimit(h) ==
    LET sleep_time == IF h.time_since_last < DELAY_BETWEEN_REQUESTS
                      THEN DELAY_BETWEEN_REQUESTS - h.time_since_last ELSE 0
    IN  [Pass(h, sleep_time) EXCEPT !.time_since_last = 0, !.request_count = @ + 1]

\* session.get / session.post: a request leaves now; gap is the time since the
\* request before it.
Send(h) ==
    [h EXCEPT !.gap = h.since_sent, !.since_sent = 0, !.sent = @ + 1,
              !.call.reqs = @ + 1]

\* What an attempt may end in: a response with a status code, a timeout, or
\* another error of the transport.
Outcomes == {"200", "404", "429", "503", "500", "204", "timeout", "error"}

\* A reading of the status in which 404 is one more failure; C19 tells Classify
\* from it.
ClassifyNo404(outcome) ==
    CASE outcome = "200" -> "ok"
      [] outcome \in {"429", "503"} -> "throttled"
      [] OTHER -> "failed"

\* The branches of get_page lines 93-142.
Classify(outcome) ==
    CASE outcome = "200" -> "ok"
      [] outcome = "404" -> "not_found"
      [] outcome \in {"429", "503"} -> "throttled"
      [] OTHER -> "failed"

\* A wait that grows by the base each time; C17 tells Backoff from it.
BackoffLinear(attempt) == (attempt + 1) * BackoffBase

\* Line 111: wait_time = (2 ** attempt) * 5
Backoff(attempt) == Pow2(attempt) * BackoffBase

\* A retry test that allows one attempt more; C18 tells MayRetry from it.
MayRetryOnceMore(attempt, retries) == attempt <= retries

\* Lines 118, 125, 132, 139: if attempt < retries
MayRetry(attempt, retries) == attempt < retries

\* The call is over with the given result.
Returned(h, result) == [h EXCEPT !.pc = "idle", !.call.result = result]

\* time.sleep(wait) followed by `continue`: the next iteration of
\* `for attempt in range(retries + 1)`, or lines 144-145 when there is none.
SleepAndContinue(h, why, wait) ==
    LET slept == [Pass(h, wait) EXCEPT
                    !.call.waits = Append(@, [attempt |-> h.attempt, why |-> why, wait |-> wait]),
                    !.attempt = @ + 1]
    IN  IF h.attempt + 1 <= h.call.retries THEN slept ELSE Returned(slept, "None")

\* One iteration of the loop of get_page (lines 83-142): the attempt ends in
\* outcome after latency seconds.
GetIteration(h, outcome, latency) ==
    LET asked == Pass(Send(RateLimit(h)), latency)
        got == [asked EXCEPT !.call.seen = Append(@, outcome)]
        branch == Classify(outcome)
    IN  CASE branch = "ok" -> Returned(got, "page")
          [] branch = "not_found" -> Returned(got, "None")
          [] branch = "throttled" -> SleepAndContinue(got, "throttled", Backoff(got.attempt))
          [] OTHER -> IF MayRetry(got.attempt, got.call.retries)
                      THEN SleepAndContinue(got, "failed", RETRY_DELAY)
                      ELSE Returned(got, "None")

\* One iteration of the loop of post_data (lines 152-182).
PostIteration(h, outcome, latency) ==
    LET asked == Pass(Send(RateLimit(h)), latency)
        got == [asked EXCEPT !.call.seen = Append(@, outcome)]
    IN  IF outcome = "200" THEN Returned(got, "page")
        ELSE IF MayRetry(got.attempt, got.call.retries)
        THEN SleepAndContinue(got, "failed", RETRY_DELAY)
        ELSE Returned(got, "None")

\* A call starts idle seconds after the one before it.
Begin(h, op, retries, idle) ==
    [Pass(h, idle) EXCEPT !.ncalls = @ + 1, !.pc = op, !.attempt = 0,
                          !.call = [NoHttpCall EXCEPT !.op = op, !.retries = retries]]

\* check_robots_txt (lines 187-209): one request, sent as the call is made.
RobotsCall(h, outcome, latency, idle) ==
    LET got == Pass(Send(Begin(h, "check_robots_txt", 0, idle)), latency)
    IN  Returned([got EXCEPT !.call.seen = Append(@, outcome)],
                 IF outcome = "200" THEN "text" ELSE "None")

\* ------------------------------------------------------------- BaseCrawler
\* The object of base_crawler.py on top of the HTTPClient.  get_page is run to
\* its return inside crawl_url, with retries = settings.MAX_RETRIES.

\* Line 133: a progress line every tenth URL.
ProgressEvery == 10

\* Operations called on the crawler in one behaviour.
MaxCrawlerOps == 4

Urls == {"a", "b"}

\* An argument that cannot be a member of a set (a list, say).
Unhashable == "[]"

\* No crawl_url call made yet.
NoCrawl == [url |-> "", running |-> FALSE, fetched_before |-> FALSE, sent |-> 0,
            counted |-> 0, marked |-> FALSE, result |-> "none"]

\* BaseCrawler.__init__ (lines 16-31).  fetched holds the URLs get_page gave a
\* page for since the last start, raised whether crawl_urls ended in an error.
NewCrawler ==
    [is_running |-> FALSE, crawled_count |-> 0, failed_count |-> 0, visited_urls |-> {},
     pc |-> "idle", urls |-> <<>>, i |-> 0, results |-> 0, ops |-> 0,
     fetched |-> {}, raised |-> FALSE, last |-> NoCrawl]

\* A start that keeps the set of visited URLs.
StartedKeepingVisited(c) ==
    IF c.is_running THEN c
    ELSE [c EXCEPT !.is_running = TRUE, !.crawled_count = 0, !.failed_count = 0, !.fetched = {}]

\* start (lines 52-65).
Started(c) ==
    IF c.is_running THEN c
    ELSE [c EXCEPT !.is_running = TRUE, !.crawled_count = 0, !.failed_count = 0,
                   !.visited_urls = {}, !.fetched = {}]

\* stop (lines 67-78).
Stopped(c) == IF ~c.is_running THEN c ELSE [c EXCEPT !.is_running = FALSE]

\* A test that finds no URL visited.
AlreadyVisitedNever(c, url) == FALSE

\* Line 88: url in self.visited_urls
AlreadyVisited(c, url) == url \in c.visited_urls

\* Lines 100-102.
MarkVisited(c, url) ==
    [c EXCEPT !.visited_urls = @ \cup {url}, !.crawled_count = @ + 1, !.fetched = @ \cup {url}]

\* Lines 95 and 108.
CountFailure(c) == [c EXCEPT !.failed_count = @ + 1]

\* The k-th response of a server that answers outs, its last answer from then on.
OutAt(outs, k) == IF k <= Len(outs) THEN outs[k] ELSE outs[Len(outs)]

\* get_page from its first attempt to its return (http_client.py lines 83-145).
RECURSIVE RunGet(_, _)
RunGet(h, outs) ==
    IF h.pc # "get_page" THEN h
    ELSE RunGet(GetIteration(h, OutAt(outs, h.call.reqs + 1), 0), outs)

\* What the server answers to the attempts of one get_page.
OutcomeRuns == {<<"200">>, <<"404">>, <<"429", "timeout", "error", "503">>}

\* crawl_url (lines 80-110): the crawler, the client and the value returned.
CrawlUrlOn(c, h, url, outs) ==
    IF ~c.is_running THEN [c |-> c, h |-> h, result |-> "None"]
    ELSE IF url = Unhashable THEN [c |-> CountFailure(c), h |-> h, result |-> "None"]
    ELSE IF AlreadyVisited(c, url) THEN [c |-> c, h |-> h, result |-> "None"]
    ELSE LET got == RunGet(Begin(h, "get_page", MAX_RETRIES, 0), outs) IN
         IF got.call.result = "page"
         THEN [c |-> MarkVisited(c, url), h |-> got, result |-> "page"]
         ELSE [c |-> CountFailure(c), h |-> got, result |-> "None"]

\* The call as the record of the last crawl_url tells it.
Crawled(c, h, url, outs) ==
    LET r == CrawlUrlOn(c, h, url, outs) IN
    [r EXCEPT !.c.last =
        [url |-> url, running |-> c.is_running, fetched_before |-> url \in c.fetched,
         sent |-> r.h.sent - h.sent,
         counted |-> (r.c.crawled_count + r.c.failed_count) - (c.crawled_count + c.failed_count),
         marked |-> r.c.visited_urls # c.visited_urls, result |-> r.result]]

\* Lists handed to crawl_urls: none, one URL, ten times one URL, ten URLs of
\* which two differ.
UrlLists ==
    {<<>>, <<"a">>, [k \in 1..ProgressEvery |-> "a"],
     [k \in 1..ProgressEvery |-> IF k % 2 = 1 THEN "a" ELSE "b"]}

\* One turn of the loop of crawl_urls (lines 121-135), the return of line 138
\* after the last; a division by zero at line 134 ends the call.
CrawlUrlsTurn(c, h, outs) ==
    IF ~c.is_running THEN [c |-> [c EXCEPT !.pc = "idle"], h |-> h]
    ELSE LET r == Crawled(c, h, c.urls[c.i + 1], outs)
             i == c.i + 1
             seen == [r.c EXCEPT !.i = i, !.results = @ + (IF r.result = "page" THEN 1 ELSE 0)]
             zero == i % ProgressEvery = 0 /\ seen.crawled_count + seen.failed_count = 0
         IN  [c |-> IF zero THEN [seen EXCEPT !.pc = "idle", !.raised = TRUE]
                    ELSE IF i = Len(c.urls) THEN [seen EXCEPT !.pc = "idle"]
                    ELSE seen,
              h |-> r.h]

\* ---------------------------------------------- crawl_university_rankings
\* A run, from create_crawler_job to its return.  row is the status column of
\* the row of crawler_jobs the run created, as the values written to it in
\* order; issued is the sequence of PATCH requests update_crawler_job sent.

\* create_crawler_job line 242: the status a job is created with.
CreateStatus == "running"

NoStats == [total_items |-> 0, successful_items |-> 0, failed_items |-> 0]

NoJob ==
    [pc |-> "start", job_id |-> NoId, row |-> <<>>, issued |-> <<>>,
     cands |-> <<>>, rows |-> 0, limit |-> 0, processed |-> 0,
     stored_count |-> 0, enriched_count |-> 0, skipped_count |-> 0, failed |-> 0,
     produced |-> "none", log |-> <<>>, returned |-> "none", run |-> 1]

\* create_crawler_job: the POST is answered with the new row ("id"), with a
\* body that holds no id ("no_id"), or it is rejected or fails ("rejected").
CreateOutcomes == {"id", "no_id", "rejected"}

CreateCrawlerJob(j, outcome) ==
    [j EXCEPT !.job_id = IF outcome = "id" THEN 1 ELSE NoId,
              !.row = IF outcome = "rejected" THEN <<>> ELSE <<CreateStatus>>]

\* update_crawler_job(job_id, status, stats): nothing is sent without a job_id;
\* the PATCH changes the row when ok, and its failure is logged, never raised.
UpdateCrawlerJob(j, status, stats, ok) ==
    IF j.job_id = NoId THEN j
    ELSE [j EXCEPT !.issued = Append(@, [from |-> j.row[Len(j.row)], status |-> status,
                                         stats |-> stats, applied |-> ok]),
                   !.row = IF ok THEN Append(@, status) ELSE @]

\* A run that reports an empty candidate list as completed; C21 tells
\* EmptyStatus from it.
EmptyStatusCompleted == "completed"

\* Line 145: the status of a run whose candidate list is empty.
EmptyStatus == "failed"

\* Line 212: the status of a run that raised.
RaisedStatus == "failed"

\* A run that calls its job failed when any candidate was lost.
LoopEndStatusFailed == "failed"

\* Line 198: the status of a run whose loop ended.
LoopEndStatus == "completed"

\* A run that goes on after a return statement; C20 tells Return from it.
ReturnFallsThrough(j, value) == j

\* return value
Return(j, value) == [j EXCEPT !.pc = "done", !.returned = value]

\* Lines 198-203: the stats of the final update.
FinalStats(j) ==
    LET successful == j.stored_count + j.enriched_count IN
    [total_items |-> j.processed, successful_items |-> successful,
     failed_items |-> IF j.processed - successful > 0 THEN j.processed - successful ELSE 0]

\* The names the safety net of _is_valid_school_name knows, among the names of
\* the model.
Famous == {<<"m", "i", "t">>, <<"a", "n", "u">>}

\* _is_valid_school_name, for names that hold no noise pattern and none of the
\* words rank, top, best: a school keyword or a famous name is asked for.
IsValidSchoolName(name) ==
    /\ Len(Strip(name)) >= 3
    /\ \E k \in Keywords \cup Famous : Contains(LowerStr(name), k)

\* Lines 179-192: the counters after a call that returned (row_id, action).
Counted(j, row_id, action) ==
    IF row_id # NoId
    THEN CASE action = "inserted" ->
                 [j EXCEPT !.stored_count = @ + 1, !.processed = @ + 1]
           [] action = "enriched" ->
                 [j EXCEPT !.enriched_count = @ + 1, !.processed = @ + 1]
           [] OTHER -> [j EXCEPT !.skipped_count = @ + 1]
    ELSE [j EXCEPT !.failed = @ + 1]

\* ------------------------------------------------------- concurrent calls
\* Two calls of enrich_or_insert_unreviewed_school that share the table.  A
\* call is three requests to the store: the lookup (line 484), the read of the
\* row inside patch_unreviewed_school (line 404) and the PATCH (line 438), or
\* the lookup and the POST; the other call may act between any two of them.

Procs == {1, 2}

\* A call not yet made.
NoProc ==
    [pc |-> "start", data |-> NoKeys, fill |-> TRUE, existing |-> NoId, updates |-> NoKeys,
     body |-> NoKeys, id |-> NoId, action |-> "none"]

NoConc == [p \in Procs |-> NoProc]

\* Lines 465-487 and 490-526: the lookup and what the call stages from the row
\* the lookup returned; line 521 ends the call when nothing is staged.
Looked(tbl, c, data, fill_only_empty, e) ==
    LET updates == EnrichUpdates(tbl[e], data, fill_only_empty) IN
    IF HasKeys(updates)
    THEN [c EXCEPT !.pc = "current", !.data = data, !.fill = fill_only_empty,
                   !.existing = e, !.updates = updates]
    ELSE [c EXCEPT !.pc = "done", !.data = data, !.fill = fill_only_empty,
                   !.existing = e, !.id = e, !.action = "skipped"]

\* Lines 404-437: the row is read again and the body of the PATCH is built
\* from it.
ReadCurrent(tbl, c) == [c EXCEPT !.pc = "patch", !.body = PatchBody(tbl[c.existing], c.updates)]

\* Lines 438-443 and 523: the PATCH is accepted.
Patched(c) == [c EXCEPT !.pc = "done", !.id = c.existing, !.action = "enriched"]

\* Lines 527-563: no row matched, the POST is accepted.
Inserted(tbl, c, data, fill_only_empty) ==
    [c EXCEPT !.pc = "done", !.data = data, !.fill = fill_only_empty,
              !.id = Len(tbl) + 1, !.action = "inserted"]

\* --------------------------------------------------------------- the inputs
\* A character of a field that is only stored and compared (country, type,
\* status, ...) may be a token standing for a run of non-blank characters.

NameMit == <<"m", "i", "t">>

NameMitS == <<"M", "i", "t", " ", "s">>

NameAnu == <<"a", "n", "u", " ">>

NameSchool == <<"S", "c", "h", "o", "o", "l">>

NameEth == <<"E", "t", "h">>

\* How a candidate names its website: not at all, as website_url, or as a blank
\* website_url with the alias key website.
SiteValue(site, k) ==
    CASE site = "url" /\ k = "website_url" -> StrV(<<"x", ".", "e">>)
      [] site = "alias" /\ k = "website_url" -> StrV(<<>>)
      [] site = "alias" /\ k = "website" -> StrV(<<"X", ".", "E", " ">>)
      [] OTHER -> Absent

\* Which scalar fields a candidate supplies: none ("none"), a first ("v1") or a
\* second ("v2") set of values, or blank ones ("blank").
ProfileValue(prof, f) ==
    CASE prof = "v1" ->
            (CASE f = "year_founded" -> IntV(1861)
               [] f = "confidence_score" -> FltV(95)
               [] f = "location" -> StrV(<<"c", "1">>)
               [] f = "status" -> StrV(<<"pending">>)
               [] OTHER -> StrV(<<f, "1">>))
      [] prof = "v2" ->
            (CASE f = "year_founded" -> IntV(0)
               [] f = "confidence_score" -> FltV(0)
               [] f = "location" -> StrV(<<"c", "2">>)
               [] f = "status" -> StrV(<<"approved">>)
               [] OTHER -> StrV(<<f, "2">>))
      [] prof = "blank" ->
            (CASE f \in {"year_founded", "confidence_score", "status"} -> None
               [] f = "location" -> StrV(<<" ">>)
               [] OTHER -> StrV(<<>>))
      [] OTHER -> Absent

Candidate(name, site, prof, rank, raw) ==
    [k \in DataKeys |->
        CASE k = "name" -> StrV(name)
          [] k \in {"website_url", "website"} -> SiteValue(site, k)
          [] k = "qs_ranking" -> rank
          [] k = "raw_data" -> raw
          [] OTHER -> ProfileValue(prof, k)]

RankEq5 == StrV(<<"=", "5">>)

RankBand == StrV(<<"2", "-", "4">>)

RankPlus == StrV(<<"9", "+">>)

RankText == StrV(<<"a", "b">>)

PayloadK1 == RawDict([k \in {"k1"} |-> IntV(1)])

PayloadK12 == RawDict([k \in {"k1", "k2"} |-> IntV(2)])

\* Candidates that differ in how they are matched: name and website.
MatchCandidates ==
    {Candidate(n, w, p, Absent, RawAbsent) :
        n \in {NameMit, NameMitS, NameAnu}, w \in {"none", "url", "alias"}, p \in {"none", "v1"}}

\* Candidates that differ in the scalar fields and the rank they supply.
FieldCandidates ==
    {Candidate(NameMit, w, p, r, RawAbsent) :
        w \in {"none", "url"}, p \in {"none", "v1", "v2", "blank"},
        r \in {Absent, RankEq5, RankBand}}

\* Candidates for the calls that may fail.
FaultCandidates ==
    {Candidate(NameMit, "none", p, r, RawAbsent) : p \in {"none", "v1"}, r \in {Absent, RankEq5}}

\* Candidates that differ in rank text and payload.
PayloadCandidates ==
    {Candidate(NameMit, "none", "none", r, d) :
        r \in {Absent, RankEq5, RankBand, RankPlus, RankText},
        d \in {RawAbsent, PayloadK1, PayloadK12}}

SourceRow(title, rank_display, rank, prof) ==
    [k \in RowKeys |->
        CASE k = "title" -> StrV(title)
          [] k = "rank_display" -> rank_display
          [] k = "rank" -> rank
          [] k = "overall_rank" -> Absent
          [] k = "founded" -> (IF prof = "full" THEN IntV(1861) ELSE Absent)
          [] OTHER -> (IF prof = "full" THEN StrV(<<k>>) ELSE Absent)]

\* Rows of the ranking source: rank texts of every shape, a row whose rank is
\* only under the key rank, with and without the descriptive fields.
SourceRows ==
    {SourceRow(NameSchool, r, Absent, p) :
        r \in {RankEq5, RankBand, RankPlus, RankText, StrV(<<"7">>), StrV(<<"=", "2", "-", "4">>)},
        p \in {"bare", "full"}}
    \cup {SourceRow(NameSchool, Absent, IntV(3), "bare")}

\* Values of --top-n.
TopNs == {4, 8}

\* ------------------------------------------------------------ specification

NoCall == CallRecord("init", Absent, Candidate(<<>>, "none", "none", Absent, RawAbsent), TRUE, "none",
                     NoId, NoWrite, NoId, "none")

\* No value normalised yet.
NoNorm == [val |-> None, out |-> <<None, None, None>>, done |-> FALSE]

Init ==
    /\ store = <<>>
    /\ calls = 0
    /\ last = NoCall
    /\ norm = NoNorm
    /\ http = NewClient
    /\ job = NoJob
    /\ conc = NoConc
    /\ topn = NoTopN
    /\ crawler = NewCrawler

\* Characters of the rank texts: digits, the three markers, a blank, a letter.
RankChars == {"0", "1", "2", "=", "+", "-", " ", "a"}

\* The arguments of _normalize_qs_ranking: None, every text of at most MaxLen
\* characters, every integer of magnitude at most MaxInt.
RankInputs ==
    {None}
    \cup {StrV(t) : t \in UNION {[1..k -> RankChars] : k \in 0..MaxLen}}
    \cup {IntV(n) : n \in (0 - MaxInt)..MaxInt}

InitNormalize ==
    /\ store = <<>>
    /\ calls = 0
    /\ last = NoCall
    /\ norm \in {[val |-> v, out |-> <<None, None, None>>, done |-> FALSE] : v \in RankInputs}
    /\ http = NewClient
    /\ job = NoJob
    /\ conc = NoConc
    /\ topn = NoTopN
    /\ crawler = NewCrawler

\* _normalize_qs_ranking(val)
Normalize ==
    /\ ~norm.done
    /\ norm' = [norm EXCEPT !.out = NormalizeQsRanking(norm.val), !.done = TRUE]
    /\ UNCHANGED <<store, calls, last, http, job, conc, topn, crawler>>

\* Direct calls of the reconciler.
ReconcileMatch ==
    /\ \E data \in MatchCandidates : Reconcile("reconcile", data["qs_ranking"], data, TRUE, "none")
    /\ UNCHANGED <<norm, http, job, conc, topn, crawler>>

ReconcileFields ==
    /\ \E data \in FieldCandidates, fill_only_empty \in BOOLEAN :
          Reconcile("reconcile", data["qs_ranking"], data, fill_only_empty, "none")
    /\ UNCHANGED <<norm, http, job, conc, topn, crawler>>

ReconcilePayload ==
    /\ \E data \in PayloadCandidates, fill_only_empty \in BOOLEAN :
          Reconcile("reconcile", data["qs_ranking"], data, fill_only_empty, "none")
    /\ UNCHANGED <<norm, http, job, conc, topn, crawler>>

\* Calls during which a request to the store may fail: the lookup, the read of
\* the row inside patch_unreviewed_school, the PATCH or the POST.
Faults == {"none", "lookup", "current", "patch", "insert"}

ReconcileFault ==
    /\ \E data \in FaultCandidates, fill_only_empty \in BOOLEAN, fault \in Faults :
          Reconcile("reconcile", data["qs_ranking"], data, fill_only_empty, fault)
    /\ UNCHANGED <<norm, http, job, conc, topn, crawler>>

\* Values of the argument retries (None stands for settings.MAX_RETRIES).
Retries == {0, 1, MAX_RETRIES}

\* Seconds a response takes, and seconds between two calls.
Latencies == {0, 2}
IdleTimes == {0, 1, DELAY_BETWEEN_REQUESTS}

GetPage ==
    /\ http.pc = "idle" /\ http.ncalls < MaxHttpCalls
    /\ \E retries \in Retries, idle \in IdleTimes : http' = Begin(http, "get_page", retries, idle)
    /\ UNCHANGED <<store, calls, last, norm, job, conc, topn, crawler>>

GetAttempt ==
    /\ http.pc = "get_page"
    /\ \E outcome \in Outcomes, latency \in Latencies : http' = GetIteration(http, outcome, latency)
    /\ UNCHANGED <<store, calls, last, norm, job, conc, topn, crawler>>

PostData ==
    /\ http.pc = "idle" /\ http.ncalls < MaxHttpCalls
    /\ \E retries \in Retries, idle \in IdleTimes : http' = Begin(http, "post_data", retries, idle)
    /\ UNCHANGED <<store, calls, last, norm, job, conc, topn, crawler>>

PostAttempt ==
    /\ http.pc = "post_data"
    /\ \E outcome \in Outcomes, latency \in Latencies : http' = PostIteration(http, outcome, latency)
    /\ UNCHANGED <<store, calls, last, norm, job, conc, topn, crawler>>

CheckRobotsTxt ==
    /\ http.pc = "idle" /\ http.ncalls < MaxHttpCalls
    /\ \E outcome \in {"200", "404", "error"}, latency \in Latencies, idle \in IdleTimes :
            http' = RobotsCall(http, outcome, latency, idle)
    /\ UNCHANGED <<store, calls, last, norm, job, conc, topn, crawler>>

HttpNext == GetPage \/ GetAttempt \/ PostData \/ PostAttempt \/ CheckRobotsTxt

\* One iteration of the loop of crawl_university_rankings (lines 151-196), for a
\* row whose name passed the check of line 158.
CrawlRow ==
    /\ \E it \in SourceRows :
          Reconcile("crawl", CrawlCandidate(it)["qs_ranking"], CrawlCandidate(it), TRUE, "none")
    /\ UNCHANGED <<norm, http, job, conc, topn, crawler>>

\* One iteration of the loop of ensure_topN (lines 269-299), for a row that
\* fetch_qs_txt kept.
TopNRow ==
    /\ \E it \in SourceRows, N \in TopNs :
          /\ FetchKeeps(it, N)
          /\ Reconcile("topn", TopNRankText(it), TopNCandidate(it), TRUE, "none")
    /\ UNCHANGED <<norm, http, job, conc, topn, crawler>>

RankNext == CrawlRow \/ TopNRow

\* Values of limit.
Limits == {1, 2}

\* enrich_or_insert_unreviewed_school(data, fill_only_empty=True) as a function
\* of the table, every store request succeeding: the table after the call and
\* the action returned.
Reconciled(tbl, data) ==
    LET matches == MatchSet(tbl, WebsiteOf(data), NameOf(data), TRUE) IN
    IF matches # {}
    THEN LET e == CHOOSE x \in matches : TRUE
             updates == EnrichUpdates(tbl[e], data, TRUE)
         IN  IF HasKeys(updates)
             THEN [store |-> [tbl EXCEPT ![e] = RowOfPatch(@, PatchBody(tbl[e], updates))],
                   action |-> "enriched"]
             ELSE [store |-> tbl, action |-> "skipped"]
    ELSE [store |-> Append(tbl, RowOfInsert(InsertBody(data))), action |-> "inserted"]

\* Lines 150-196 as a function: the table an uninterrupted loop over cands
\* leaves, from table tbl and with processed candidates counted so far.
RECURSIVE LoopResult(_, _, _, _)
LoopResult(tbl, cands, limit, processed) ==
    IF cands = <<>> \/ processed >= limit THEN tbl
    ELSE LET data == CrawlCandidate(Head(cands)) IN
         IF ~IsValidSchoolName(NameOf(data).s)
         THEN LoopResult(tbl, Tail(cands), limit, processed)
         ELSE LET r == Reconciled(tbl, data) IN
              LoopResult(r.store, Tail(cands), limit,
                         IF r.action \in {"inserted", "enriched"} THEN processed + 1 ELSE processed)

\* What the run did with one candidate: its name, whether the name passed line
\* 158, and for a call of the reconciler the failure met and the result.
Logged(data, valid, call) ==
    [name |-> NameOf(data).s, valid |-> valid, fault |-> call.fault, id |-> call.id,
     action |-> call.action]

\* Rows of the ranking source a run meets: two schools, one of them with and
\* without a founding year, and a title that is no school name.
JobRows ==
    {SourceRow(NameMitS, RankEq5, Absent, "bare"), SourceRow(NameMitS, RankEq5, Absent, "full"),
     SourceRow(NameAnu, RankBand, Absent, "bare"), SourceRow(<<"a", "b">>, RankPlus, Absent, "bare")}

\* Lines 115-126: the job row is created; limits are the values of the
\* argument limit.
CreateJobWith(limits) ==
    /\ job.pc = "start"
    /\ \E outcome \in CreateOutcomes, limit \in limits :
          job' = [CreateCrawlerJob(job, outcome) EXCEPT !.pc = "fetch", !.limit = limit]
    /\ UNCHANGED <<store, calls, last, norm, http, conc, topn, crawler>>

CreateJob == CreateJobWith(Limits)

\* The lists of at most MaxCalls source rows drawn from a set.
Batches(rows) == UNION {[1..n -> rows] : n \in 0..MaxCalls}

\* Lines 128-148: the candidates are produced.  The producer raises (lines
\* 209-213 then update the job, if it has an id), yields nothing (lines 143-148)
\* or yields a list of rows, cands; rows of them are still to be iterated.
FetchRowsFrom(rows) ==
    /\ job.pc = "fetch"
    /\ \E all_universities \in Batches(rows), raised \in BOOLEAN, ok \in BOOLEAN :
          job' = IF raised
                 THEN Return(UpdateCrawlerJob([job EXCEPT !.produced = "raised"],
                                              RaisedStatus, NoStats, ok), "False")
                 ELSE IF all_universities = <<>>
                 THEN Return(UpdateCrawlerJob([job EXCEPT !.produced = "empty"],
                                              EmptyStatus, NoStats, ok), "False")
                 ELSE [job EXCEPT !.pc = "loop", !.cands = all_universities,
                                  !.rows = Len(all_universities), !.produced = "rows"]
    /\ UNCHANGED <<store, calls, last, norm, http, conc, topn, crawler>>

FetchRows == FetchRowsFrom(JobRows)

\* The row the loop is at.
NextRow(j) == j.cands[Len(j.cands) - j.rows + 1]

\* Lines 151-196: one iteration of the loop, for the next row; faults are the
\* store failures the call may meet.
JobRowWith(faults) ==
    /\ job.pc = "loop" /\ job.rows > 0 /\ job.processed < job.limit
    /\ LET data == CrawlCandidate(NextRow(job)) IN
          IF ~IsValidSchoolName(NameOf(data).s)
          THEN /\ job' = [job EXCEPT !.rows = @ - 1, !.log = Append(@, Logged(data, FALSE, NoCall))]
               /\ UNCHANGED <<store, calls, last>>
          ELSE /\ \E fault \in faults : Reconcile("crawl", data["qs_ranking"], data, TRUE, fault)
               /\ job' = Counted([job EXCEPT !.rows = @ - 1, !.log = Append(@, Logged(data, TRUE, last'))],
                                 last'.id, last'.action)
    /\ UNCHANGED <<norm, http, conc, topn, crawler>>

JobRow == JobRowWith(Faults)

\* Lines 152-153 and 198-207: the loop ends, the job is updated, the run
\* returns True.
FinishJob ==
    /\ job.pc = "loop" /\ (job.rows = 0 \/ job.processed >= job.limit)
    /\ \E ok \in BOOLEAN :
          job' = Return(UpdateCrawlerJob(job, LoopEndStatus, FinalStats(job), ok), "True")
    /\ UNCHANGED <<store, calls, last, norm, http, conc, topn, crawler>>

JobNext == CreateJob \/ FetchRows \/ JobRow \/ FinishJob

\* Rows of the ranking source of a batch that is run again: a school without
\* and with a rank band, and another school.
RerunRows ==
    {SourceRow(NameAnu, Absent, Absent, "bare"), SourceRow(NameAnu, RankBand, Absent, "bare"),
     SourceRow(NameMitS, RankEq5, Absent, "full")}

RerunFetch == FetchRowsFrom(RerunRows)

\* An iteration during which every store request succeeds.
RerunRow == JobRowWith({"none"})

\* The run is interrupted between two iterations of its loop (or after the
\* last one, before the job is updated), and the batch is started again with
\* the same limit and the same candidates; the new process creates its job and
\* counts from zero.  What the store holds stays.
Interrupt ==
    /\ job.pc = "loop" /\ job.run = 1
    /\ job' = [CreateCrawlerJob(NoJob, "id") EXCEPT
                  !.pc = "loop", !.limit = job.limit, !.cands = job.cands,
                  !.rows = Len(job.cands), !.produced = "rows", !.run = 2]
    /\ calls' = 0
    /\ UNCHANGED <<store, last, norm, http, conc, topn, crawler>>

\* Values of limit of the runs that are counted.
CountedLimits == {0, 1, 2}

\* Rows of the ranking source of a run that is counted: two schools.
CountedRows ==
    {SourceRow(NameMitS, RankEq5, Absent, "bare"), SourceRow(NameAnu, RankBand, Absent, "bare")}

\* Store failures of a run that is counted: none, a rejected POST, a POST
\* accepted and answered without the row.
CountedFaults == {"none", "insert", "norep"}

CountedCreate == CreateJobWith(CountedLimits)

CountedFetch == FetchRowsFrom(CountedRows)

CountedRow == JobRowWith(CountedFaults)

\* crawl_university_rankings is called again on the same UniversityCrawler:
\* stored_count, enriched_count and skipped_count are fields set in __init__
\* only (lines 66-68) and keep their values; processed is a local of the call.
RunAgain ==
    /\ job.pc = "done" /\ job.run = 1
    /\ job' = [NoJob EXCEPT !.stored_count = job.stored_count,
                            !.enriched_count = job.enriched_count,
                            !.skipped_count = job.skipped_count,
                            !.run = 2]
    /\ calls' = 0
    /\ UNCHANGED <<store, last, norm, http, conc, topn, crawler>>

CountedNext == CountedCreate \/ CountedFetch \/ CountedRow \/ FinishJob \/ RunAgain

RerunNext == CreateJob \/ RerunFetch \/ RerunRow \/ Interrupt \/ FinishJob

PayloadK0 == RawDict([k \in {"k0"} |-> IntV(0)])

PayloadK2 == RawDict([k \in {"k2"} |-> IntV(2)])

\* The table before the two calls: one row, inserted for a candidate that had
\* a name and a payload only.
ConcTable == <<RowOfInsert(InsertBody(Candidate(NameMit, "none", "none", Absent, PayloadK0)))>>

\* The candidates of the two calls: the stored school with one of two sets of
\* field values and one of two payloads, and a school not stored yet.
ConcCandidates ==
    {Candidate(NameMit, "none", p, Absent, raw) : p \in {"v1", "v2"}, raw \in {PayloadK1, PayloadK2}}
    \cup {Candidate(NameAnu, "none", "v1", Absent, PayloadK1)}

InitConc ==
    /\ store = ConcTable
    /\ calls = 0
    /\ last = NoCall
    /\ norm = NoNorm
    /\ http = NewClient
    /\ job = NoJob
    /\ conc = NoConc
    /\ topn = NoTopN
    /\ crawler = NewCrawler

\* Call p starts: its lookup, and its POST when nothing matches.
ConcLookup(p) ==
    /\ conc[p].pc = "start"
    /\ \E data \in ConcCandidates, fill_only_empty \in BOOLEAN :
          LET matches == MatchSet(store, WebsiteOf(data), NameOf(data), TRUE) IN
          IF matches # {}
          THEN /\ \E e \in matches :
                     conc' = [conc EXCEPT ![p] = Looked(store, @, data, fill_only_empty, e)]
               /\ store' = store
          ELSE /\ conc' = [conc EXCEPT ![p] = Inserted(store, @, data, fill_only_empty)]
               /\ store' = Append(store, RowOfInsert(InsertBody(data)))
    /\ UNCHANGED <<calls, last, norm, http, job, topn, crawler>>

\* Call p reads the current row inside patch_unreviewed_school.
ConcCurrent(p) ==
    /\ conc[p].pc = "current"
    /\ conc' = [conc EXCEPT ![p] = ReadCurrent(store, @)]
    /\ UNCHANGED <<store, calls, last, norm, http, job, topn, crawler>>

\* Call p sends its PATCH and returns.
ConcPatch(p) ==
    /\ conc[p].pc = "patch"
    /\ store' = [store EXCEPT ![conc[p].existing] = RowOfPatch(@, conc[p].body)]
    /\ conc' = [conc EXCEPT ![p] = Patched(@)]
    /\ UNCHANGED <<calls, last, norm, http, job, topn, crawler>>

ConcNext == \E p \in Procs : ConcLookup(p) \/ ConcCurrent(p) \/ ConcPatch(p)

\* Values of N for a fetch on its own: ranks at, below and above each are among
\* the parsed ranks.
FetchNs == {2, 12}

\* What the ranking source answers to a fetch on its own: one row whose title
\* has a keyword and whose rank is any argument of RankInputs, one row whose
\* title has none, or two of four rows in either order.
FetchPairRows ==
    {SourceRow(NameSchool, RankBand, Absent, "bare"), SourceRow(NameSchool, StrV(<<"=", "2">>), Absent, "bare"),
     SourceRow(NameEth, StrV(<<"1">>), Absent, "bare"), SourceRow(NameSchool, RankPlus, Absent, "bare")}

FetchSources ==
    {<<SourceRow(NameSchool, r, Absent, "bare")>> : r \in RankInputs}
    \cup {<<SourceRow(NameEth, r, Absent, "bare")>> : r \in {RankEq5, RankText, StrV(<<"2">>)}}
    \cup {<<a, b>> : a \in FetchPairRows, b \in FetchPairRows}

\* A fetch on its own: fetch_qs_txt is about to be called with N on a source that
\* answers topn.source.
InitFetch ==
    /\ store = <<>>
    /\ calls = 0
    /\ last = NoCall
    /\ norm = NoNorm
    /\ http = NewClient
    /\ job = NoJob
    /\ conc = NoConc
    /\ topn \in {[NoTopN EXCEPT !.pc = "fetch", !.N = N, !.source = src] :
                    N \in FetchNs, src \in FetchSources}
    /\ crawler = NewCrawler

\* fetch_qs_txt(main_url, indicators_url, referer, N) for a QS url that answers
\* with a list of rows.
FetchQs ==
    /\ topn.pc = "fetch"
    /\ topn' = [topn EXCEPT !.pc = "fetched", !.fetched = TRUE,
                            !.norm_ranks = NormRanks(topn.source, topn.N),
                            !.kept = FetchQsTxt(topn.source, topn.N)]
    /\ UNCHANGED <<store, calls, last, norm, http, job, conc, crawler>>

NameUnivers == <<"U", "n", "i", "v", "e", "r", "s">>

\* The row an earlier ensure_topN inserted for a school of that title and rank.
StoredTopN(title, rank) ==
    RowOfInsert(InsertBody(TopNCandidate(SourceRow(title, StrV(rank), Absent, "bare"))))

\* Tables a run of ensure_topN starts from: empty; rank 1 alone; ranks 1 and 2;
\* a school at rank 7; two schools at rank 1; two schools at rank 2.
TopNStores ==
    {<<>>,
     <<StoredTopN(NameSchool, <<"1">>)>>,
     <<StoredTopN(NameSchool, <<"1">>), StoredTopN(NameUnivers, <<"2">>)>>,
     <<StoredTopN(NameSchool, <<"7">>)>>,
     <<StoredTopN(NameSchool, <<"1">>), StoredTopN(NameUnivers, <<"1">>)>>,
     <<StoredTopN(NameSchool, <<"2">>), StoredTopN(NameUnivers, <<"2">>)>>}

\* Values of --top-n of a run.
EnsureNs == {0, 1, 2}

\* What the ranking source answers to a run: nothing (also a refused fetch), or
\* rows among: School at 1, Univers at =2, Eth at 2, School at =2.
EnsureSources ==
    LET A == SourceRow(NameSchool, StrV(<<"1">>), Absent, "bare")
        B == SourceRow(NameUnivers, StrV(<<"=", "2">>), Absent, "bare")
        C == SourceRow(NameEth, StrV(<<"2">>), Absent, "bare")
        D == SourceRow(NameSchool, StrV(<<"=", "2">>), Absent, "bare")
    IN  {<<>>, <<A>>, <<A, B>>, <<B, A>>, <<C>>, <<D>>, <<A, C>>}

\* Arguments of need_fetch_topN on its own.
NeedArgs ==
    {[NoTopN EXCEPT !.pc = "args", !.N = N, !.count = c, !.max_rank = m, !.present = pr] :
        N \in EnsureNs, c \in 0..MaxCalls,
        m \in {None} \cup {IntV(x) : x \in 0..MaxCalls}, pr \in SUBSET (0..MaxCalls)}

\* ensure_topN is about to run on one of the tables, or need_fetch_topN is about
\* to be called on its own.
InitEnsure ==
    /\ calls = 0
    /\ last = NoCall
    /\ norm = NoNorm
    /\ http = NewClient
    /\ job = NoJob
    /\ conc = NoConc
    /\ \/ store \in TopNStores /\ topn = NoTopN
       \/ store = <<>> /\ topn \in NeedArgs
    /\ crawler = NewCrawler

\* need_fetch_topN(N, count, max_rank, present) on its own.
NeedFetch ==
    /\ topn.pc = "args"
    /\ topn' = [topn EXCEPT !.pc = "decided",
                            !.need = NeedFetchTopN(topn.N, topn.count, topn.max_rank, topn.present)]
    /\ UNCHANGED <<store, calls, last, norm, http, job, conc, crawler>>

\* ensure_topN lines 249-266: the status query (answered or not), the decision,
\* and when a fetch is needed the fetch; the run returns 0 at once when nothing
\* is needed and after the fetch on a dry run.
EnsureCheck ==
    /\ topn.pc = "start"
    /\ \E N \in EnsureNs, dry_run \in BOOLEAN, source \in EnsureSources, ok \in BOOLEAN :
          LET status == FetchTopNStatus(store, N, ok)
              need == NeedFetchTopN(N, status.count, status.max_rank, status.present)
              rows == FetchQsTxt(source, N)
              checked == [topn EXCEPT !.N = N, !.dry_run = dry_run, !.source = source,
                                      !.status_ok = ok, !.count = status.count,
                                      !.max_rank = status.max_rank, !.present = status.present,
                                      !.need = need]
          IN  topn' = IF ~need THEN [checked EXCEPT !.pc = "done", !.returned = "0"]
                      ELSE IF dry_run
                      THEN [checked EXCEPT !.pc = "done", !.returned = "0", !.fetched = TRUE,
                                           !.norm_ranks = NormRanks(source, N), !.kept = rows]
                      ELSE [checked EXCEPT !.pc = "loop", !.fetched = TRUE,
                                           !.norm_ranks = NormRanks(source, N), !.kept = rows,
                                           !.rows = Len(rows)]
    /\ UNCHANGED <<store, calls, last, norm, http, job, conc, crawler>>

\* ensure_topN lines 269-299: one iteration of the loop over the fetched rows.
\* enrich_or_insert_unreviewed_school raises nothing, so failed stays 0.
EnsureRow ==
    /\ topn.pc = "loop" /\ topn.rows > 0
    /\ LET data == topn.kept[Len(topn.kept) - topn.rows + 1] IN
          /\ \E fault \in Faults :
                Reconcile("topn", OrEmptyDict(data["raw_data"])["qs_ranking_text"], data, TRUE, fault)
          /\ topn' = [topn EXCEPT
                !.rows = @ - 1,
                !.log = Append(@, Logged(data, TRUE, last')),
                !.writes = IF last'.write.applied THEN @ + 1 ELSE @,
                !.stored = IF last'.action = "inserted" THEN @ + 1 ELSE @,
                !.enriched = IF last'.action = "enriched" THEN @ + 1 ELSE @,
                !.skipped = IF last'.action \notin {"inserted", "enriched"} THEN @ + 1 ELSE @]
    /\ UNCHANGED <<norm, http, job, conc, crawler>>

\* ensure_topN lines 301-307: the loop is over, the status is queried again for
\* the log, the run returns 0.
EnsureFinish ==
    /\ topn.pc = "loop" /\ topn.rows = 0
    /\ topn' = [topn EXCEPT !.pc = "done", !.returned = "0"]
    /\ UNCHANGED <<store, calls, last, norm, http, job, conc, crawler>>

EnsureNext == NeedFetch \/ EnsureCheck \/ EnsureRow \/ EnsureFinish

Start ==
    /\ crawler.pc = "idle" /\ crawler.ops < MaxCrawlerOps
    /\ crawler' = [Started(crawler) EXCEPT !.ops = @ + 1]
    /\ UNCHANGED <<store, calls, last, norm, http, job, conc, topn>>

Stop ==
    /\ crawler.pc = "idle" /\ crawler.ops < MaxCrawlerOps
    /\ crawler' = [Stopped(crawler) EXCEPT !.ops = @ + 1]
    /\ UNCHANGED <<store, calls, last, norm, http, job, conc, topn>>

CrawlUrl ==
    /\ crawler.pc = "idle" /\ crawler.ops < MaxCrawlerOps
    /\ \E url \in Urls \cup {Unhashable}, outs \in OutcomeRuns :
          LET r == Crawled(crawler, http, url, outs) IN
          /\ crawler' = [r.c EXCEPT !.ops = @ + 1]
          /\ http' = r.h
    /\ UNCHANGED <<store, calls, last, norm, job, conc, topn>>

\* crawl_urls lines 114-120: an empty list returns at once.
CrawlUrls ==
    /\ crawler.pc = "idle" /\ crawler.ops < MaxCrawlerOps
    /\ \E urls \in UrlLists :
          crawler' = [crawler EXCEPT !.ops = @ + 1, !.urls = urls, !.i = 0, !.results = 0,
                                     !.pc = IF urls = <<>> THEN "idle" ELSE "loop"]
    /\ UNCHANGED <<store, calls, last, norm, http, job, conc, topn>>

CrawlUrlsNext ==
    /\ crawler.pc = "loop"
    /\ \E outs \in OutcomeRuns :
          LET r == CrawlUrlsTurn(crawler, http, outs) IN
          /\ crawler' = r.c
          /\ http' = r.h
    /\ UNCHANGED <<store, calls, last, norm, job, conc, topn>>

CrawlerNext == Start \/ Stop \/ CrawlUrl \/ CrawlUrls \/ CrawlUrlsNext

SpecCrawler == Init /\ [][CrawlerNext]_vars

SpecMatch == Init /\ [][ReconcileMatch]_vars

SpecFields == Init /\ [][ReconcileFields]_vars

SpecPayload == Init /\ [][ReconcilePayload]_vars

SpecNormalize == InitNormalize /\ [][Normalize]_vars

SpecHttp == Init /\ [][HttpNext]_vars

\* Calls of get_page alone; the loop of a call goes on until it returns.
GetNext == GetPage \/ GetAttempt

SpecGet == Init /\ [][GetNext]_vars /\ WF_vars(GetAttempt)

SpecFault == Init /\ [][ReconcileFault]_vars

SpecRank == Init /\ [][RankNext]_vars

SpecJob == Init /\ [][JobNext]_vars

SpecRerun == Init /\ [][RerunNext]_vars

SpecCounted == Init /\ [][CountedNext]_vars

SpecConc == InitConc /\ [][ConcNext]_vars

SpecFetch == InitFetch /\ [][FetchQs]_vars

SpecEnsure == InitEnsure /\ [][EnsureNext]_vars

\* One run of either script, from an empty table.
RunsNext ==
    \/ topn.pc = "start" /\ JobNext
    \/ job.pc = "start" /\ (EnsureCheck \/ EnsureRow \/ EnsureFinish)

SpecRuns == Init /\ [][RunsNext]_vars

\* ------------------------------------------------------------------- claims

\* A step that is one call of the reconciler.
IsCall == calls' = calls + 1

\* The three components of the rank triple of a candidate.
RankOf(data) == NormalizeQsRanking(Get(data["qs_ranking"]))

\* C1: reconciling the same candidate twice in fill-only-empty mode, all store
\* operations succeeding, gives 'inserted' and then 'skipped', and the second
\* call leaves the stored entity as the first one left it.
C1_InsertedThenSkipped ==
    [][(/\ IsCall
        /\ last.action = "inserted" /\ last.fill
        /\ last'.data = last.data /\ last'.fill)
       => (last'.action = "skipped" /\ store' = store)]_vars

\* C2: a call in fill-only-empty mode changes no scalar column of any row that
\* is non-empty before the call.
C2_FillOnlyEmpty ==
    [][(IsCall /\ last'.fill)
       => \A i \in 1..Len(store) : \A f \in ScalarCols :
            ~IsEmptyValue(store[i][f]) => store'[i][f] = store[i][f]]_vars

\* C2 witness: a fill-only-empty call enriched a row while the candidate carried,
\* for a non-empty column of it, a different non-empty value, which was not stored.
C2_Witness ==
    /\ last.action = "enriched" /\ last.fill
    /\ \E f \in CandidateFields :
        /\ ~IsEmptyValue(Get(last.data[f]))
        /\ ~IsEmptyValue(store[last.existing][f])
        /\ store[last.existing][f] # Get(last.data[f])

\* C3: when the candidate matches a row in which every scalar field the candidate
\* supplies, the rank included, is already non-empty, a fill-only-empty call
\* returns 'skipped' with the row's id and sends no write.
C3_SteadyStateNoWrite ==
    [][(/\ IsCall /\ last'.fill
        /\ last'.existing # NoId
        /\ \A f \in CandidateFields :
            ~IsEmptyValue(Get(last'.data[f])) => ~IsEmptyValue(store[last'.existing][f])
        /\ RankOf(last'.data)[2] # None
        /\ ~IsEmptyValue(store[last'.existing]["qs_ranking"]))
       => (/\ last'.action = "skipped" /\ last'.id = last'.existing
           /\ last'.write.kind = "none" /\ store' = store)]_vars

\* The candidate's name is contained, as written, in the name of row i.
NameWithin(data, i) == Contains(store[i]["name"].s, NameOf(data).s)

RankKeys == {"qs_ranking_display", "qs_rank_min", "qs_rank_max"}

\* The payload of row i in table tbl, and the candidate's own payload.
PayloadOf(tbl, i) == OrEmptyDict(tbl[i]["raw_data"])
PayloadIn(data) == OrEmptyDict(data["raw_data"])

\* C5 as stated: after an enrichment the payload has every key of the old payload
\* and of the candidate's, the candidate's value on every key of the candidate's,
\* and the old value on every old key the candidate's payload lacks.
C5_PayloadUnion ==
    [][(IsCall /\ last'.action = "enriched") =>
        LET P_old == PayloadOf(store, last'.existing)
            P_in == PayloadIn(last'.data)
            P_new == PayloadOf(store', last'.existing)
        IN  /\ (DOMAIN P_old \cup DOMAIN P_in) \subseteq DOMAIN P_new
            /\ \A k \in DOMAIN P_in : P_new[k] = P_in[k]
            /\ \A k \in DOMAIN P_old \ DOMAIN P_in : P_new[k] = P_old[k]]_vars

\* C5: as above, where the values are claimed for the keys other than the three
\* rank keys, which the call sets from its own rank.
C5_PayloadUnionButRank ==
    [][(IsCall /\ last'.action = "enriched") =>
        LET P_old == PayloadOf(store, last'.existing)
            P_in == PayloadIn(last'.data)
            P_new == PayloadOf(store', last'.existing)
        IN  /\ (DOMAIN P_old \cup DOMAIN P_in) \subseteq DOMAIN P_new
            /\ \A k \in DOMAIN P_in \ RankKeys : P_new[k] = P_in[k]
            /\ \A k \in (DOMAIN P_old \ DOMAIN P_in) \ RankKeys : P_new[k] = P_old[k]]_vars

\* C5 witness: an enrichment whose candidate payload is {k1: 1} left a payload
\* with k1 = 1 and with k2 = 2, a key only the old payload had.
C5_Witness ==
    /\ last.action = "enriched"
    /\ DOMAIN PayloadIn(last.data) = {"k1"}
    /\ {"k1", "k2"} \subseteq DOMAIN PayloadOf(store, last.existing)
    /\ PayloadOf(store, last.existing)["k1"] = IntV(1)
    /\ PayloadOf(store, last.existing)["k2"] = IntV(2)

\* C6: a first call with a name, a website and a rank of lower bound a (and no
\* location) inserts; a next fill-only-empty call with the same name, no
\* website, a non-empty location L and a rank of another lower bound returns
\* 'enriched', sets the location to L and leaves the scalar rank a.
C6_EnrichKeepsRank ==
    [][(/\ calls = 1 /\ IsCall /\ last'.fill
        /\ last.action = "inserted"
        /\ Truthy(WebsiteOf(last.data))
        /\ IsEmptyValue(Get(last.data["location"]))
        /\ RankOf(last.data)[2] # None
        /\ NameOf(last'.data) = NameOf(last.data)
        /\ ~Truthy(WebsiteOf(last'.data))
        /\ ~IsEmptyValue(Get(last'.data["location"]))
        /\ RankOf(last'.data)[2] \notin {None, RankOf(last.data)[2]})
       => (/\ last'.action = "enriched" /\ last'.id = last.id
           /\ store'[last.id]["location"] = last'.data["location"]
           /\ store'[last.id]["qs_ranking"] = RankOf(last.data)[2]
           /\ store'[last.id]["website_url"] = store[last.id]["website_url"])]_vars

\* C6 witness: the row inserted with rank '=5' has, after an enrichment by a
\* candidate of rank '2-4' without website, the candidate's location and rank 5.
C6_Witness ==
    /\ calls = 2 /\ Len(store) = 1
    /\ last.action = "enriched" /\ last.fill
    /\ last.data["qs_ranking"] = RankBand
    /\ ~Truthy(WebsiteOf(last.data))
    /\ store[1]["qs_ranking"] = IntV(5)
    /\ Truthy(store[1]["website_url"])
    /\ store[1]["location"] = last.data["location"]
    /\ ~IsEmptyValue(store[1]["location"])

\* Row i of the store has a website that contains the candidate's website (any
\* case), resp. a name that contains the candidate's name.
SiteHit(data, i) ==
    /\ WebsiteOf(data).s # <<>>
    /\ store[i]["website_url"].t = "str"
    /\ Contains(LowerStr(store[i]["website_url"].s), LowerStr(WebsiteOf(data).s))
NameHit(data, i) ==
    /\ NameOf(data).s # <<>>
    /\ Contains(LowerStr(store[i]["name"].s), LowerStr(NameOf(data).s))

\* C7: when a row matches the candidate by website, the call selects a row that
\* does, whatever rows match by name, and changes no other row; when none does
\* and a row matches by name, it selects one of those; it inserts exactly when
\* no row matches either way.
C7_WebsiteFirst ==
    [][IsCall =>
        LET d == last'.data
            A == {i \in 1..Len(store) : SiteHit(d, i)}
            B == {i \in 1..Len(store) : NameHit(d, i)}
        IN  /\ A # {} => last'.existing \in A
            /\ (A = {} /\ B # {}) => last'.existing \in B
            /\ (last'.action = "inserted") <=> (A = {} /\ B = {})
            /\ \A i \in 1..Len(store) : i # last'.existing => store'[i] = store[i]]_vars

\* C7 witness: of two rows, the candidate's website is on one only and its name
\* on the other only; the first was selected and enriched.
C7_Witness ==
    /\ Len(store) = 2
    /\ last.action = "enriched"
    /\ \E b \in 1..2 :
        /\ b # last.existing
        /\ SiteHit(last.data, last.existing) /\ ~SiteHit(last.data, b)
        /\ NameHit(last.data, b) /\ ~NameHit(last.data, last.existing)

Written(v) == IF v = None THEN Absent ELSE v

C9_PayloadRankTriple ==
    last.action = "enriched" =>
        LET tr == RankOf(last.data)
            P == PayloadOf(store, last.existing)
        IN  /\ tr[1] # None =>
                ("qs_ranking_display" \in DOMAIN P /\ P["qs_ranking_display"] = tr[1])
            /\ tr[2] # None => ("qs_rank_min" \in DOMAIN P /\ P["qs_rank_min"] = tr[2])
            /\ tr[3] # None => ("qs_rank_max" \in DOMAIN P /\ P["qs_rank_max"] = tr[3])

\* The upper bound of a rank text, its '=' signs removed.
UpperOf(src) == NormalizeQsRanking(StrV(RemoveChar(PyStr(src), "=")))[3]

\* A call made for a source row wrote a scalar rank.
WroteRank ==
    /\ last.op \in {"crawl", "topn"}
    /\ last.write.kind \in {"insert", "patch"} /\ last.write.applied
    /\ last.write.body["qs_ranking"] # Absent

\* C10 as stated: the scalar rank written is the lower bound of the rank text,
\* for crawl_university_rankings and for ensure_topN alike.
C10_ScalarIsLower ==
    WroteRank => last.write.body["qs_ranking"] = NormalizeQsRanking(last.src)[2]

\* C10: the scalar rank written is the lower bound of the rank text for
\* crawl_university_rankings and its upper bound for ensure_topN (2 and 4 for
\* '2-4').
C10_ScalarByCaller ==
    WroteRank =>
        /\ last.op = "crawl" => last.write.body["qs_ranking"] = NormalizeQsRanking(last.src)[2]
        /\ last.op = "topn" => last.write.body["qs_ranking"] = UpperOf(last.src)
        /\ last.src = RankBand =>
              last.write.body["qs_ranking"] = (IF last.op = "crawl" THEN IntV(2) ELSE IntV(4))
        /\ store[last.write.id]["qs_ranking"] = last.write.body["qs_ranking"]

\* C10 witness: ensure_topN wrote 4 as the scalar rank of a row ranked '2-4'.
C10_Witness ==
    /\ WroteRank
    /\ last.op = "topn" /\ last.src = RankBand
    /\ store[last.write.id]["qs_ranking"] = IntV(4)

\* The call just made matched row last'.existing and staged at least one field.
StagedSomething ==
    /\ IsCall /\ last'.existing # NoId
    /\ HasKeys(EnrichUpdates(store[last'.existing], last'.data, last'.fill))

\* C11 as stated: when the patch of a matched row fails, the result is 'skipped'
\* with the id of the matched row, and the row is unchanged.
C11_FailedPatchKeepsId ==
    [][(StagedSomething /\ last'.fault \in {"current", "patch"})
       => (last'.action = "skipped" /\ last'.id = last'.existing /\ store' = store)]_vars

\* C11: when the patch of a matched row fails (the row cannot be read back, or
\* the PATCH is rejected), the result is 'skipped' with no id, and the table is
\* unchanged.
C11_FailedPatchNoId ==
    [][(StagedSomething /\ last'.fault \in {"current", "patch"})
       => (last'.action = "skipped" /\ last'.id = NoId /\ store' = store)]_vars

\* C11 witness: a PATCH with a staged rank was sent for a matched row and
\* rejected; the call returned 'skipped' and no id.
C11_Witness ==
    /\ last.fault = "patch" /\ last.existing # NoId
    /\ last.write.kind = "patch" /\ ~last.write.applied
    /\ last.write.body["qs_ranking"] = IntV(5)
    /\ store[last.existing]["qs_ranking"] = None
    /\ last.action = "skipped" /\ last.id = NoId

\* C12: after a call in override mode that matched a row, every candidate field
\* with a non-empty incoming value holds that value, every non-empty one with an
\* empty incoming value (none or blank) holds what it held, and the scalar rank
\* is the lower bound of the candidate's rank, or what it was when there is none.
C12_OverrideMode ==
    [][(IsCall /\ ~last'.fill /\ last'.existing # NoId)
       => LET e == last'.existing
              d == last'.data
          IN  /\ \A f \in CandidateFields :
                    IF IsEmptyValue(Get(d[f]))
                    THEN ~IsEmptyValue(store[e][f]) => store'[e][f] = store[e][f]
                    ELSE store'[e][f] = d[f]
              /\ store'[e]["qs_ranking"] =
                    (IF RankOf(d)[2] = None THEN store[e]["qs_ranking"] ELSE RankOf(d)[2])]_vars

\* The triple of an unparseable text.
Unparsed(u) == <<StrV(u), None, None>>

\* The three triples of the reference rules, for integers n, lo, hi.
TieTriple(n) == <<StrV(<<"=">> \o IntToStr(n)), IntV(n), IntV(n)>>
OpenTriple(n) == <<StrV(IntToStr(n) \o <<"+">>), IntV(n), None>>
BandTriple(lo, hi) == <<StrV(IntToStr(lo) \o <<"-">> \o IntToStr(hi)), IntV(lo), IntV(hi)>>
PlainTriple(n) == <<StrV(IntToStr(n)), IntV(n), IntV(n)>>

\* x, blanks around it apart, is a number written in digits; its value.
IsNumber(x) == IsDigitStr(Strip(x))
NumberOf(x) == DigitsVal(Strip(x))

\* x, blanks around it apart, is digits after at most one sign; its value.
IsSigned(x) ==
    \/ IsNumber(x)
    \/ Strip(x) # <<>> /\ Strip(x)[1] \in {"+", "-"} /\ IsDigitStr(Tail(Strip(x)))
SignedOf(x) ==
    IF IsNumber(x) THEN NumberOf(x)
    ELSE IF Strip(x)[1] = "-" THEN 0 - DigitsVal(Tail(Strip(x)))
    ELSE DigitsVal(Tail(Strip(x)))

\* The parts of u before and after its first '-'.
BeforeDash(u) == SubSeq(u, 1, FirstIndex(u, "-") - 1)
AfterDash(u) == SubSeq(u, FirstIndex(u, "-") + 1, Len(u))
HasDash(u) == \E i \in 1..Len(u) : u[i] = "-"

\* The reference rules read with n, lo and hi numbers written in digits: the
\* first rule whose form the text has gives the triple.
RefRules(val) ==
    IF val = None \/ Strip(val.s) = <<>> THEN <<None, None, None>>
    ELSE LET u == Strip(val.s) IN
         IF u[1] = "=" /\ IsNumber(Tail(u)) THEN TieTriple(NumberOf(Tail(u)))
         ELSE IF u[Len(u)] = "+" /\ IsNumber(SubSeq(u, 1, Len(u) - 1))
              THEN OpenTriple(NumberOf(SubSeq(u, 1, Len(u) - 1)))
         ELSE IF HasDash(u) /\ IsNumber(BeforeDash(u)) /\ IsNumber(AfterDash(u))
              THEN BandTriple(NumberOf(BeforeDash(u)), NumberOf(AfterDash(u)))
         ELSE IF IsNumber(u) THEN PlainTriple(NumberOf(u))
         ELSE Unparsed(u)

\* The rules read with signed integers, the first marker the text has ('='
\* prefix, '+' suffix, '-') deciding the rule.
RefRulesSigned(val) ==
    IF val = None \/ Strip(val.s) = <<>> THEN <<None, None, None>>
    ELSE LET u == Strip(val.s) IN
         IF u[1] = "="
         THEN (IF IsSigned(Tail(u)) THEN TieTriple(SignedOf(Tail(u))) ELSE Unparsed(u))
         ELSE IF u[Len(u)] = "+"
         THEN (IF IsSigned(SubSeq(u, 1, Len(u) - 1))
               THEN OpenTriple(SignedOf(SubSeq(u, 1, Len(u) - 1))) ELSE Unparsed(u))
         ELSE IF HasDash(u)
         THEN (IF IsSigned(BeforeDash(u)) /\ IsSigned(AfterDash(u))
               THEN BandTriple(SignedOf(BeforeDash(u)), SignedOf(AfterDash(u)))
               ELSE Unparsed(u))
         ELSE IF IsSigned(u) THEN PlainTriple(SignedOf(u))
         ELSE Unparsed(u)

\* The value normalised is None or a text.
TextNormalized == norm.done /\ norm.val.t \in {"none", "str"}

\* C13 as stated: for None and every text, the normaliser gives the triple of the
\* reference rules, n, lo and hi being numbers written in digits.
C13_ReferenceRules == TextNormalized => norm.out = RefRules(norm.val)

\* C13: for None and every text, the normaliser gives the triple of the rules
\* read with signed integers and the first marker deciding: '+2' gives
\* ('2', 2, 2), '-2' gives ('-2', none, none), '=2+' gives ('=2+', none, none).
C13_ReferenceRulesSigned ==
    TextNormalized =>
        /\ norm.out = RefRulesSigned(norm.val)
        /\ norm.val = StrV(<<"=", "2">>) => norm.out = <<StrV(<<"=", "2">>), IntV(2), IntV(2)>>
        /\ norm.val = StrV(<<"1", "2">>) => norm.out = <<StrV(<<"1", "2">>), IntV(12), IntV(12)>>
        /\ norm.val = StrV(<<"1", "-", "2">>) => norm.out = <<StrV(<<"1", "-", "2">>), IntV(1), IntV(2)>>
        /\ norm.val = StrV(<<"2", "+">>) => norm.out = <<StrV(<<"2", "+">>), IntV(2), None>>
        /\ norm.val = StrV(<<"a">>) => norm.out = <<StrV(<<"a">>), None, None>>
        /\ norm.val = StrV(<<"+", "2">>) => norm.out = <<StrV(<<"2">>), IntV(2), IntV(2)>>
        /\ norm.val = StrV(<<"-", "2">>) => norm.out = <<StrV(<<"-", "2">>), None, None>>
        /\ norm.val = StrV(<<"=", "2", "+">>) => norm.out = <<StrV(<<"=", "2", "+">>), None, None>>

\* C13 witness: the text ' =+2' was normalised to ('=2', 2, 2).
C13_Witness ==
    /\ norm.done
    /\ norm.val = StrV(<<" ", "=", "+", "2">>)
    /\ norm.out = <<StrV(<<"=", "2">>), IntV(2), IntV(2)>>

\* C14: whenever the normaliser gives both a lower and an upper bound, the lower
\* one is at most the upper one.
C14_LowerAtMostUpper ==
    (norm.done /\ norm.out[2] # None /\ norm.out[3] # None) => norm.out[2].n <= norm.out[3].n

\* The value normalised is an integer.
IntNormalized == norm.done /\ norm.val.t = "int"

\* C15 as stated: every integer n passed as a number gives (str(n), n, n).
C15_NumericInput == IntNormalized => norm.out = PlainTriple(norm.val.n)

\* C15: an integer n >= 0 passed as a number gives (str(n), n, n), a negative
\* one gives (str(n), none, none); 12 gives ('12', 12, 12).
C15_NumericInputBySign ==
    IntNormalized =>
        /\ norm.val.n >= 0 => norm.out = PlainTriple(norm.val.n)
        /\ norm.val.n < 0 => norm.out = Unparsed(<<"-">> \o IntToStr(0 - norm.val.n))
        /\ norm.val = IntV(12) => norm.out = <<StrV(<<"1", "2">>), IntV(12), IntV(12)>>

\* C15 witness: the integer -12 was normalised to ('-12', none, none).
C15_Witness ==
    /\ norm.done
    /\ norm.val = IntV(0 - 12)
    /\ norm.out = <<StrV(<<"-", "1", "2">>), None, None>>

\* C16: the send times of any two consecutive requests of one HTTPClient differ
\* by at least DELAY_BETWEEN_REQUESTS.
C16_MinInterval == http.sent >= 2 => http.gap >= DELAY_BETWEEN_REQUESTS

\* The call of get_page in progress or last made, the number of its attempts
\* and the attempts that ended in a given way.
GetCall == http.call
Attempts == Len(GetCall.seen)
IsGetPage == GetCall.op = "get_page"
Throttled(i) == GetCall.seen[i] \in {"429", "503"}
Failed(i) == GetCall.seen[i] \notin {"200", "404", "429", "503"}

\* The wait that followed attempt a (counted from 0): a set with one record, or
\* empty.
WaitAfter(a) == {GetCall.waits[k] : k \in {j \in 1..Len(GetCall.waits) : GetCall.waits[j].attempt = a}}

\* C17: a 429 or 503 on attempt a of get_page is followed by a wait of 5 * 2^a
\* seconds (5, 10, 20, 40), so that each such wait is at least double the one
\* before it; after retries + 1 throttled attempts the call has returned None
\* and sent retries + 1 requests.
C17_Backoff ==
    IsGetPage =>
        /\ \A i \in 1..Attempts : Throttled(i) =>
              /\ WaitAfter(i - 1) # {}
              /\ \A w \in WaitAfter(i - 1) :
                    /\ w.why = "throttled"
                    /\ w.wait = (CASE i = 1 -> 5 [] i = 2 -> 10 [] i = 3 -> 20 [] i = 4 -> 40
                                   [] OTHER -> 5 * Pow2(i - 1))
        /\ \A i, j \in 1..Attempts : (i < j /\ Throttled(i) /\ Throttled(j)) =>
              \A v \in WaitAfter(i - 1), w \in WaitAfter(j - 1) : w.wait >= 2 * v.wait
        /\ (Attempts = GetCall.retries + 1 /\ \A i \in 1..Attempts : Throttled(i)) =>
              (http.pc = "idle" /\ GetCall.result = "None" /\ GetCall.reqs = GetCall.retries + 1)
        /\ GetCall.reqs <= GetCall.retries + 1

\* C17 witness: a call with the default retries met four throttling responses,
\* waited 5, 10, 20 and 40 seconds and returned None.
C17_Witness ==
    /\ IsGetPage /\ GetCall.retries = MAX_RETRIES
    /\ GetCall.seen = <<"429", "503", "429", "429">>
    /\ [k \in 1..Len(GetCall.waits) |-> GetCall.waits[k].wait] = <<5, 10, 20, 40>>
    /\ GetCall.result = "None" /\ http.pc = "idle"

\* C18: an attempt a of get_page that ends in a timeout, a transport error or a
\* status other than 200, 404, 429, 503 is followed, when a < retries, by a wait
\* of RETRY_DELAY (5 seconds, whatever a) and another attempt, and otherwise by
\* the return of None; a call makes at most retries + 1 attempts.
C18_FixedDelayRetry ==
    IsGetPage =>
        /\ Attempts <= GetCall.retries + 1
        /\ GetCall.reqs = Attempts
        /\ \A i \in 1..Attempts : Failed(i) =>
              IF i - 1 < GetCall.retries
              THEN /\ WaitAfter(i - 1) # {}
                   /\ \A w \in WaitAfter(i - 1) : w.why = "failed" /\ w.wait = 5
                   /\ (Attempts > i \/ http.pc = "get_page")
              ELSE /\ WaitAfter(i - 1) = {}
                   /\ i = Attempts /\ http.pc = "idle" /\ GetCall.result = "None"

\* C18 witness: a call with retries = 3 met a timeout, a 500, an error and a
\* 204, waited 5 seconds three times and returned None.
C18_Witness ==
    /\ IsGetPage /\ GetCall.retries = 3
    /\ GetCall.seen = <<"timeout", "500", "error", "204">>
    /\ [k \in 1..Len(GetCall.waits) |-> GetCall.waits[k].wait] = <<5, 5, 5>>
    /\ GetCall.result = "None" /\ http.pc = "idle"

\* C19: a 404 on an attempt of get_page ends the call: it is the last attempt,
\* the call has returned None, and no wait follows the attempt.
C19_NotFoundIsTerminal ==
    IsGetPage =>
        \A i \in 1..Attempts : GetCall.seen[i] = "404" =>
            /\ i = Attempts /\ GetCall.reqs = i
            /\ http.pc = "idle" /\ GetCall.result = "None"
            /\ WaitAfter(i - 1) = {}

\* C19 witness: a call with retries left met a 429 and then a 404, and returned
\* None after two requests and one wait.
C19_Witness ==
    /\ IsGetPage /\ GetCall.retries = MAX_RETRIES
    /\ GetCall.seen = <<"429", "404">>
    /\ GetCall.reqs = 2 /\ Len(GetCall.waits) = 1
    /\ GetCall.result = "None" /\ http.pc = "idle"

\* C20: the row of a job is created with status 'running'; the status updates
\* a run issues are running -> completed and running -> failed only; a run
\* issues at most one of them, as its last step, and so never after a terminal
\* status was written.
C20_JobStateMachine ==
    /\ job.row # <<>> => job.row[1] = "running"
    /\ job.row \in {<<>>, <<"running">>, <<"running", "completed">>, <<"running", "failed">>}
    /\ Len(job.issued) <= 1
    /\ \A i \in 1..Len(job.issued) :
          /\ job.issued[i].from = "running"
          /\ job.issued[i].status \in {"completed", "failed"}
    /\ job.issued # <<>> => job.pc = "done"
    /\ \A i \in 1..Len(job.row) : job.row[i] \in {"completed", "failed"} => i = Len(job.row)

\* C20 witness: a run that lost a candidate to a store failure and stored
\* another has written completed over running with its one update.
C20_Witness ==
    /\ job.pc = "done" /\ job.returned = "True"
    /\ job.row = <<"running", "completed">>
    /\ Len(job.issued) = 1
    /\ job.failed >= 1 /\ job.stored_count >= 1

\* The status of the update a returned run issued.
IssuedStatus == job.issued[1].status
Updated == job.pc = "done" /\ job.issued # <<>>

\* C21: a run ends with job status 'failed' only when candidate production
\* raised; in every other case, an empty candidate list included, it ends
\* 'completed'.
C21_FailedOnlyWhenRaised ==
    Updated => (IssuedStatus = "failed" <=> job.produced = "raised")

\* C21 as the code has it: a run ends with job status 'failed' exactly when
\* candidate production raised or produced no candidate, and 'completed' in
\* every other case, runs with failed candidates included.
C21_FailedWhenRaisedOrEmpty ==
    Updated =>
        /\ IssuedStatus \in {"failed", "completed"}
        /\ IssuedStatus = "failed" <=> job.produced \in {"raised", "empty"}
        /\ (job.produced = "rows" /\ job.failed > 0) => IssuedStatus = "completed"
        /\ job.row[Len(job.row)] \in {"running", IssuedStatus}

\* C21 witness: a run whose candidate list was empty has issued 'failed'.
C21_Witness ==
    Updated /\ job.produced = "empty" /\ IssuedStatus = "failed" /\ job.row = <<"running", "failed">>

\* C23: the failed_items a completed run persists with its job equals the
\* number of its candidates whose reconciliation failed (no row id came back).
C23_FailedItemsCounted ==
    (Updated /\ job.produced = "rows") => job.issued[1].stats.failed_items = job.failed

\* C24: once a run has returned, the row it created holds the status
\* 'completed' or 'failed', never 'running'.
C24_FinalStatusStored ==
    (job.pc = "done" /\ job.row # <<>>) => job.row[Len(job.row)] \in {"completed", "failed"}

\* C25: a batch that was interrupted and then run again to completion, with
\* the same candidates and limit and a store that accepts every request, leaves
\* the table as one uninterrupted run of the batch leaves it.
C25_RerunConverges ==
    (job.run = 2 /\ job.pc = "done") => store = LoopResult(<<>>, job.cands, job.limit, 0)

\* The call that sends its PATCH in this step, and the row it is sent for.
Patches(p) == conc[p].pc = "patch" /\ conc'[p].pc = "done"

\* C26: when two calls with fill_only_empty=True run concurrently against the
\* same row, a PATCH of one of them never changes a candidate field that is
\* already non-empty: the field one call has set is not overwritten by the
\* other.
C26_OneWritePerField ==
    [][\A p \in Procs :
          (Patches(p) /\ \A q \in Procs : conc[q].fill) =>
              \A f \in CandidateFields :
                  ~IsEmptyValue(store[conc[p].existing][f]) =>
                      store'[conc[p].existing][f] = store[conc[p].existing][f]]_vars

\* The keys of the payload of the candidate of call p.
PayloadKeys(p) == DOMAIN OrEmptyDict(conc[p].data["raw_data"])

\* C27: when two concurrent calls against the same row, whose payloads have
\* disjoint keys, have both returned 'enriched', the stored payload holds the
\* keys of both.
C27_PayloadMergeConcurrent ==
    (/\ \A p \in Procs : conc[p].pc = "done" /\ conc[p].action = "enriched"
     /\ conc[1].existing = conc[2].existing
     /\ PayloadKeys(1) \cap PayloadKeys(2) = {})
    => (PayloadKeys(1) \cup PayloadKeys(2)) \subseteq DOMAIN OrEmptyDict(store[conc[1].existing]["raw_data"])

\* The rank of a text by its shape: n for the digits 'n', hi for a band 'lo-hi'
\* (blanks around lo and hi do not count), None for every other text.
ShapeRank(body) ==
    LET k == FirstIndex(body, "-")
        lo == Strip(SubSeq(body, 1, k - 1))
        hi == Strip(SubSeq(body, k + 1, Len(body)))
    IN  IF IsDigitStr(body) THEN IntV(DigitsVal(body))
        ELSE IF k # 0 /\ IsDigitStr(lo) /\ IsDigitStr(hi) THEN IntV(DigitsVal(hi))
        ELSE None

\* The rank the statement of C28 gives a rank text: n for '=n' and for 'n', hi
\* for a band 'lo-hi', None for every other input; blanks around the text do
\* not count, and a number stands for its digits.
StatedRank(v) ==
    IF v.t \in {"none", "absent"} THEN None
    ELSE LET s == Strip(PyStr(v))
         IN  ShapeRank(IF s # <<>> /\ s[1] = "=" THEN Strip(Tail(s)) ELSE s)

\* The rank of a text once the blanks around it, and then every '=' in it, are
\* dropped.
RankWithoutEquals(v) ==
    IF v.t \in {"none", "absent"} THEN None
    ELSE ShapeRank(RemoveChar(Strip(PyStr(v)), "="))

\* The title of source row i has three characters and a keyword.
NamedLikeSchool(i) ==
    LET name == Strip(Get(topn.source[i]["title"]).s)
    IN  Len(name) >= 3 /\ \E k \in Keywords : Contains(LowerStr(name), k)

\* kept holds, in ascending order of rank, one row for each source row of the
\* set want, with the name of the row and the rank rank gives its text.
KeptExactly(want, rank(_)) ==
    /\ Len(topn.kept) = Cardinality(want)
    /\ \A i \in want : \E j \in 1..Len(topn.kept) :
          /\ topn.kept[j]["name"].s = Strip(Get(topn.source[i]["title"]).s)
          /\ topn.kept[j]["qs_ranking"] = rank(TopNRankText(topn.source[i]))
    /\ \A j \in 1..(Len(topn.kept) - 1) :
          topn.kept[j]["qs_ranking"].n <= topn.kept[j + 1]["qs_ranking"].n

NeedDecidedAsStated ==
    topn.pc = "decided" =>
        (~topn.need <=> /\ topn.count >= topn.N
                        /\ topn.max_rank.t = "int" /\ topn.max_rank.n >= topn.N
                        /\ (1..topn.N) \subseteq topn.present)

\* A run that needed nothing fetched nothing, wrote nothing and returned 0.
NothingDoneWhenComplete ==
    (topn.pc \in {"loop", "done"} /\ ~topn.need) =>
        /\ topn.pc = "done" /\ topn.returned = "0"
        /\ ~topn.fetched /\ topn.kept = <<>>
        /\ calls = 0 /\ topn.writes = 0 /\ store \in TopNStores

\* C29 as stated: need_fetch_topN returns False exactly when count >= N, max_rank
\* is present and >= N and every rank 1..N is in present; on the count, maximum
\* and set of one query result that is the same as 1..N being a subset of
\* present; and when it is False ensure_topN fetches nothing, writes nothing and
\* returns 0.
C29_NoFetchIffRanksPresent ==
    /\ NeedDecidedAsStated
    /\ topn.pc \in {"loop", "done"} => (~topn.need <=> (1..topn.N) \subseteq topn.present)
    /\ NothingDoneWhenComplete

\* C29, amended: as stated, the equivalence with 1..N being a subset of present
\* for N >= 1 only (for N = 0 and a query result without a rank <= 0 the
\* function returns True although 1..N is empty).
C29_NoFetchIffRanksPresentFromOne ==
    /\ NeedDecidedAsStated
    /\ (topn.pc \in {"loop", "done"} /\ topn.N >= 1) =>
            (~topn.need <=> (1..topn.N) \subseteq topn.present)
    /\ NothingDoneWhenComplete

\* A run for the top 2 found ranks 1 and 2 stored and returned at once.
C29_Witness ==
    /\ topn.pc = "done" /\ topn.N = 2 /\ ~topn.need /\ ~topn.dry_run
    /\ topn.present = {1, 2} /\ topn.count = 2
    /\ topn.source # <<>>
    /\ Len(store) = 2

\* The run of ensure_topN is over, was no dry run, fetched, and its status
\* query and every store operation of its calls succeeded.
EnsureCompleted ==
    /\ topn.pc = "done" /\ ~topn.dry_run /\ topn.fetched /\ topn.status_ok
    /\ \A i \in 1..Len(topn.log) : topn.log[i].fault = "none"

\* C30: after ensure_topN completes (no dry run, the fetch and the store
\* operations succeeding), from any initial table, every fetched source row
\* whose parsed rank is at most N has a row in unreviewed_schools with its name
\* whose scalar qs_ranking is the parsed rank of the source row.
C30_TopNStoredWithRank ==
    EnsureCompleted =>
        \A i \in 1..Len(topn.source) :
            LET rank == NormalizeRankToInt(TopNRankText(topn.source[i]))
                name == Strip(Get(topn.source[i]["title"]).s)
            IN  (rank.t = "int" /\ rank.n <= topn.N) =>
                    \E e \in 1..Len(store) :
                        store[e]["name"] = StrV(name) /\ store[e]["qs_ranking"] = rank

\* The loop of crawl_university_rankings took the candidates in their order,
\* one log entry each, and every valid one went through the reconciler.
CrawlLoopInOrder ==
    /\ Len(job.log) <= Len(job.cands)
    /\ \A i \in 1..Len(job.log) :
          /\ job.log[i].name = NameOf(CrawlCandidate(job.cands[i])).s
          /\ job.log[i].valid => job.log[i].action \in {"inserted", "enriched", "skipped"}

\* The loop of ensure_topN took the fetched rows in their order.
EnsureLoopInOrder ==
    /\ Len(topn.log) <= Len(topn.kept)
    /\ \A i \in 1..Len(topn.log) :
          /\ topn.log[i].name = NameOf(topn.kept[i]).s
          /\ topn.log[i].action \in {"inserted", "enriched", "skipped"}

\* C22: a candidate whose reconciliation failed (the store refused its lookup,
\* insert or patch) stops neither loop: every later candidate is taken in
\* iteration order until the candidates or the limit are exhausted, the crawl
\* reports its job completed and returns True, ensure_topN returns 0.
C22_FailureIsolated ==
    /\ CrawlLoopInOrder
    /\ EnsureLoopInOrder
    /\ (job.pc = "done" /\ job.produced = "rows") =>
          /\ Len(job.log) = Len(job.cands) \/ job.processed >= job.limit
          /\ job.returned = "True"
          /\ job.issued # <<>> => job.issued[1].status = "completed"
    /\ (topn.pc = "done" /\ topn.need /\ ~topn.dry_run) =>
          /\ Len(topn.log) = Len(topn.kept)
          /\ topn.returned = "0"

\* A crawl lost a candidate to a refused store request, stored a later one and
\* reported its job completed.
C22_Witness ==
    /\ job.pc = "done" /\ job.issued # <<>> /\ job.issued[1].status = "completed"
    /\ \E i \in 1..Len(job.log) : \E k \in 1..Len(job.log) :
          /\ i < k
          /\ job.log[i].valid /\ job.log[i].fault \in {"insert", "patch"} /\ job.log[i].id = NoId
          /\ job.log[k].valid /\ job.log[k].action = "inserted" /\ job.log[k].id # NoId

\* The iterations of the run whose call inserted or enriched a row.
WrittenByRun == {i \in 1..Len(job.log) : job.log[i].action \in {"inserted", "enriched"}}

\* C31: a run of crawl_university_rankings with limit L inserts or enriches at
\* most L entities; with L <= 0 and candidates it reconciles nothing and reports
\* its job completed; skipped and failed candidates do not count, so that a run
\* stops only after L inserted-or-enriched outcomes or at the end of the
\* candidates.
C31_LimitBoundsWrites ==
    /\ Cardinality({job.log[i].name : i \in WrittenByRun}) <= (IF job.limit > 0 THEN job.limit ELSE 0)
    /\ (job.pc = "done" /\ job.produced = "rows") =>
          /\ job.limit <= 0 => job.log = <<>>
          /\ job.issued # <<>> => job.issued[1].status = "completed"
          /\ Len(job.log) = Len(job.cands) \/ Cardinality(WrittenByRun) >= job.limit

\* C33: get_page sleeps only when another attempt follows: no wait is made at
\* the last attempt (attempt number = retries), whatever it ended in.
C33_NoWaitAfterLastAttempt ==
    http.call.op = "get_page" =>
        \A i \in 1..Len(http.call.waits) : http.call.waits[i].attempt < http.call.retries

\* What holds of a call of get_page at every moment: at most retries + 1
\* requests, one per response seen, and a page only after a 200.
GetPageBounded ==
    http.call.op = "get_page" =>
        /\ http.call.reqs <= http.call.retries + 1
        /\ http.call.reqs = Len(http.call.seen)
        /\ http.call.result = "page" => http.call.seen[Len(http.call.seen)] = "200"
        /\ http.call.result \in {"none", "page", "None"}

\* C34: for every sequence of responses and every retries >= 0, get_page sends
\* at most retries + 1 requests, returns a page only upon a 200 response,
\* request_count grows by exactly the number of requests it sends, and the call
\* terminates.
C34_GetPageTerminates ==
    /\ []GetPageBounded
    /\ [][http.pc = "get_page" =>
            http'.request_count - http.request_count = http'.sent - http.sent]_vars
    /\ (http.pc = "get_page") ~> (http.pc = "idle")

\* A call with three retries met throttling, a timeout, an error and a 500,
\* sent four requests and returned None.
C34_Witness ==
    /\ http.pc = "idle" /\ http.call.op = "get_page" /\ http.call.retries = MAX_RETRIES
    /\ http.call.seen = <<"429", "timeout", "error", "500">>
    /\ http.call.reqs = MAX_RETRIES + 1 /\ http.call.result = "None"

\* C35: a failed lookup never causes an insert: when the lookup requests of a
\* call fail, the call inserts nothing.
C35_FailedLookupInsertsNothing ==
    last.fault = "lookup" => last.write.kind # "insert" /\ last.action # "inserted"

\* C36: after any sequence of reconcile calls in either fill mode, every row
\* that has both the scalar qs_ranking and the payload key qs_rank_min has the
\* same value in the two.
C36_ScalarEqualsPayloadMin ==
    \A e \in 1..Len(store) :
        LET P == PayloadOf(store, e) IN
        (store[e]["qs_ranking"].t = "int" /\ "qs_rank_min" \in DOMAIN P) =>
            P["qs_rank_min"] = store[e]["qs_ranking"]

\* C38: in every job update issued with status completed, successful_items +
\* failed_items = total_items and successful_items <= total_items, also for a
\* second run of crawl_university_rankings on the same UniversityCrawler.
C38_JobCountersAddUp ==
    \A i \in 1..Len(job.issued) :
        job.issued[i].status = "completed" =>
            LET stats == job.issued[i].stats IN
            /\ stats.successful_items + stats.failed_items = stats.total_items
            /\ stats.successful_items <= stats.total_items

\* C39: whatever the store does, a call of enrich_or_insert_unreviewed_school
\* returns (id, action) with action inserted, enriched or skipped, and a result
\* inserted or enriched carries an id.
C39_ResultCarriesId ==
    last.op # "init" =>
        /\ last.action \in {"inserted", "enriched", "skipped"}
        /\ last.action \in {"inserted", "enriched"} => last.id # NoId

\* C32: crawl_url sends requests exactly when the crawler runs and the URL was
\* not fetched with success since the last start: a URL fetched before is not
\* asked for again, a URL whose fetch failed is not marked visited and is asked
\* for again, and a crawler that does not run sends nothing and counts nothing.
C32_VisitedOnceFetched ==
    crawler.last.result # "none" =>
        LET l == crawler.last IN
        /\ l.url \in Urls => (l.sent > 0 <=> (l.running /\ ~l.fetched_before))
        /\ l.fetched_before => l.result = "None"
        /\ l.marked <=> l.result = "page"
        /\ l.result = "None" /\ ~l.fetched_before => l.url \notin crawler.visited_urls
        /\ ~l.running => l.sent = 0 /\ l.counted = 0 /\ ~l.marked

\* A URL was fetched, and the next crawl_url for it in the same run sent nothing.
C32_Witness ==
    /\ crawler.last.running /\ crawler.last.fetched_before
    /\ crawler.last.sent = 0 /\ crawler.last.result = "None"
    /\ crawler.crawled_count = 1 /\ crawler.failed_count = 1

\* C37: crawled_count is the number of visited URLs after every start,
\* crawl_url, crawl_urls and stop, and the success rate of crawl_urls is never
\* a division by zero.
C37_CrawledCountsVisited ==
    /\ crawler.crawled_count = Cardinality(crawler.visited_urls)
    /\ ~crawler.raised

\* crawl_urls went through ten URLs of which every one was already visited, no
\* fetch having failed: the rate is computed from crawled_count alone.
C37_Witness ==
    /\ crawler.pc = "idle" /\ crawler.i = ProgressEvery /\ crawler.results = 0
    /\ crawler.failed_count = 0 /\ crawler.crawled_count = 1
    /\ crawler.visited_urls = {"a"}

====
